---- MODULE Spec2Model ----
(***************************************************************************)
(* A model of the TACL parser (src/src/tacl/parser.py): the two passes of  *)
(* parse_tacl_content, the reference resolver and the type validator.      *)
(*                                                                         *)
(* Python strings are sequences of one-character strings, so that the      *)
(* string operations of the code (startswith, split, the reference regex,  *)
(* str()) are computed rather than assumed.  A TACL value is a record      *)
(*   [kind, n, s, keys, items]                                             *)
(* with kind in {"str","int","float","bool","null","list","map"}; a float  *)
(* carries its value in tenths in n, a bool 0 or 1, a mapping its keys and *)
(* values as two parallel sequences in insertion order (a Python dict).    *)
(***************************************************************************)
EXTENDS Integers, Sequences, FiniteSets, TLC

VARIABLES
    doc,            \* the source document: the top-level field lines
    custom_types,   \* parser.custom_types, the @type registry
    fields,         \* the list of TACLField built by pass one
    parsed_data,    \* the field table (key -> value)
    idx,            \* index of the next field of the running pass
    pc,             \* "pass1", "table", "pass2", "done" or "failed"
    error,          \* the exception raised by parse_tacl_content, if any
    result,         \* the mapping returned by parse_tacl_content, if any
    uval, utype,    \* inputs of a direct validate_value call
    upath, udata,   \* inputs of a direct resolve_reference call
    ures,           \* the outcome of the direct call
    ustr,           \* input of a direct parse_type call
    uparsed         \* the outcome of the direct parse_type call

vars == <<doc, custom_types, fields, parsed_data, idx, pc, error, result,
          uval, utype, upath, udata, ures, ustr, uparsed>>

(***************************************************************************)
(* Bounds of the model.                                                    *)
(***************************************************************************)
MaxFields == 3

\* direct calls of validate_value: the longest list value
MaxLen == 2

\* direct calls of resolve_reference: the most parts of a path
MaxParts == 2

\* the lines of a document after its first field header
MaxLines == 3

\* the calls of parse_type, one inside the other, that the interpreter's
\* stack has room for
MaxDepth == 4

(***************************************************************************)
(* Characters.                                                             *)
(***************************************************************************)
Digits == <<"0", "1", "2", "3", "4", "5", "6", "7", "8", "9">>

Letters ==
    {"a","b","c","d","e","f","g","h","i","j","k","l","m","n","o","p","q","r",
     "s","t","u","v","w","x","y","z","A","B","C","D","E","F","G","H","I","J",
     "K","L","M","N","O","P","Q","R","S","T","U","V","W","X","Y","Z"}

IsDigit(c) == \E d \in 1..10 : Digits[d] = c

DigitVal(c) == (CHOOSE d \in 1..10 : Digits[d] = c) - 1

IsIdStart(c) == c \in Letters \/ c = "_"

IsIdChar(c) == IsIdStart(c) \/ IsDigit(c)

HasChar(s, c) == \E i \in 1..Len(s) : s[i] = c

FirstIndex(s, c) == CHOOSE i \in 1..Len(s) : s[i] = c /\ \A j \in 1..(i-1) : s[j] # c

StartsWith(s, c) == Len(s) > 0 /\ s[1] = c

EndsWith(s, c) == Len(s) > 0 /\ s[Len(s)] = c

RECURSIVE Strip(_)
Strip(s) ==
    IF StartsWith(s, " ") THEN Strip(Tail(s))
    ELSE IF EndsWith(s, " ") THEN Strip(SubSeq(s, 1, Len(s) - 1))
    ELSE s

RECURSIVE Concat(_)
Concat(ss) == IF ss = <<>> THEN <<>> ELSE Head(ss) \o Concat(Tail(ss))

(***************************************************************************)
(* Values.                                                                 *)
(***************************************************************************)
VStr(s) == [kind |-> "str", n |-> 0, s |-> s, keys |-> <<>>, items |-> <<>>]
VInt(n) == [kind |-> "int", n |-> n, s |-> <<>>, keys |-> <<>>, items |-> <<>>]
VFloat(t) == [kind |-> "float", n |-> t, s |-> <<>>, keys |-> <<>>, items |-> <<>>]
VBool(b) == [kind |-> "bool", n |-> IF b THEN 1 ELSE 0, s |-> <<>>, keys |-> <<>>, items |-> <<>>]
VNull == [kind |-> "null", n |-> 0, s |-> <<>>, keys |-> <<>>, items |-> <<>>]
VList(items) == [kind |-> "list", n |-> 0, s |-> <<>>, keys |-> <<>>, items |-> items]
VMap(keys, items) == [kind |-> "map", n |-> 0, s |-> <<>>, keys |-> keys, items |-> items]

EmptyMap == VMap(<<>>, <<>>)

\* key in d, for a str key and any value d
MapHas(d, key) == d.kind = "map" /\ \E i \in 1..Len(d.keys) : d.keys[i] = VStr(key)

\* d[key]
MapGet(d, key) == d.items[CHOOSE i \in 1..Len(d.keys) : d.keys[i] = VStr(key)]

\* d[key] = v: an existing key keeps its position, a new key is appended
MapSet(d, key, v) ==
    IF MapHas(d, key)
    THEN VMap(d.keys, [i \in 1..Len(d.items) |->
                          IF d.keys[i] = VStr(key) THEN v ELSE d.items[i]])
    ELSE VMap(Append(d.keys, VStr(key)), Append(d.items, v))

(***************************************************************************)
(* Errors.  A message is kept as its format (tag), the field path it is    *)
(* prefixed with (path, validation only), its argument (arg) and, once     *)
(* wrapped by pass two, the line number it is prefixed with.               *)
(***************************************************************************)
Err(cls, tag, path, arg) ==
    [cls |-> cls, tag |-> tag, path |-> path, arg |-> arg, line |-> 0, names |-> <<>>]

NoErr == Err("", "", <<>>, <<>>)

Ok(v) == [ok |-> TRUE, val |-> v, err |-> NoErr]

Fail(e) == [ok |-> FALSE, val |-> VNull, err |-> e]

RefErr(tag, arg) == Err("TACLReferenceError", tag, <<>>, arg)

(***************************************************************************)
(* int(index_str): optional blanks, an optional sign, one or more digits.  *)
(* (Python also accepts single underscores between digits; no input of the *)
(* model writes an index that way.)                                        *)
(***************************************************************************)
RECURSIVE DigitsVal(_, _)
DigitsVal(s, acc) ==
    IF s = <<>> THEN acc ELSE DigitsVal(Tail(s), 10 * acc + DigitVal(Head(s)))

AllDigits(s) == Len(s) > 0 /\ \A i \in 1..Len(s) : IsDigit(s[i])

IsSigned(s) == Len(s) > 0 /\ s[1] \in {"-", "+"}

Unsigned(s) == IF IsSigned(s) THEN Tail(s) ELSE s

ParseInt(str) ==
    LET Parse(s, body) ==
            IF AllDigits(body)
            THEN [ok |-> TRUE,
                  n |-> IF StartsWith(s, "-") THEN 0 - DigitsVal(body, 0)
                        ELSE DigitsVal(body, 0)]
            ELSE [ok |-> FALSE, n |-> 0]
    IN  Parse(Strip(str), Unsigned(Strip(str)))

(***************************************************************************)
(* ref_path.split(".")                                                     *)
(***************************************************************************)
RECURSIVE SplitAcc(_, _, _, _)
SplitAcc(s, sep, cur, acc) ==
    IF s = <<>> THEN Append(acc, cur)
    ELSE IF Head(s) = sep THEN SplitAcc(Tail(s), sep, <<>>, Append(acc, cur))
    ELSE SplitAcc(Tail(s), sep, Append(cur, Head(s)), acc)

Split(s, sep) == SplitAcc(s, sep, <<>>, <<>>)

(***************************************************************************)
(* TACLParser.resolve_reference: walk the parts of ref_path from the field *)
(* table, one part per step of the loop.                                   *)
(***************************************************************************)
ArrayName(part) == SubSeq(part, 1, FirstIndex(part, "[") - 1)

IndexStr(part) == SubSeq(part, FirstIndex(part, "[") + 1, Len(part) - 1)

\* ArrayStep with a negative index counting from the end of the array
ArrayStepWraps(current_value, part, ref_path) ==
    LET Element(array_value, index) ==
            IF array_value.kind # "list"
            THEN Fail(RefErr("is not an array in reference", ref_path))
            ELSE IF index < 0 - Len(array_value.items) \/ index >= Len(array_value.items)
            THEN Fail(RefErr("Array index out of bounds", ref_path))
            ELSE Ok(array_value.items[(index % Len(array_value.items)) + 1])
        Step(array_name, index) ==
            IF ~index.ok
            THEN Fail(RefErr("Invalid array index in reference", part))
            ELSE IF ~MapHas(current_value, array_name)
            THEN Fail(RefErr("Array not found in reference path", ref_path))
            ELSE Element(MapGet(current_value, array_name), index.n)
    IN  Step(ArrayName(part), ParseInt(IndexStr(part)))

ArrayStep(current_value, part, ref_path) ==
    LET Element(array_value, index) ==
            IF array_value.kind # "list"
            THEN Fail(RefErr("is not an array in reference", ref_path))
            ELSE IF index < 0 \/ index >= Len(array_value.items)
            THEN Fail(RefErr("Array index out of bounds", ref_path))
            ELSE Ok(array_value.items[index + 1])
        Step(array_name, index) ==
            IF ~index.ok
            THEN Fail(RefErr("Invalid array index in reference", part))
            ELSE IF ~MapHas(current_value, array_name)
            THEN Fail(RefErr("Array not found in reference path", ref_path))
            ELSE Element(MapGet(current_value, array_name), index.n)
    IN  Step(ArrayName(part), ParseInt(IndexStr(part)))

PropertyStep(current_value, part, ref_path) ==
    IF ~MapHas(current_value, part)
    THEN Fail(RefErr("Property not found in reference path", ref_path))
    ELSE Ok(MapGet(current_value, part))

IsArrayPart(part) == HasChar(part, "[") /\ EndsWith(part, "]")

RECURSIVE WalkParts(_, _, _)
WalkParts(parts, current_value, ref_path) ==
    IF parts = <<>> THEN Ok(current_value)
    ELSE LET Continue(step) ==
                 IF step.ok THEN WalkParts(Tail(parts), step.val, ref_path) ELSE step
         IN  Continue(IF IsArrayPart(Head(parts))
                      THEN ArrayStep(current_value, Head(parts), ref_path)
                      ELSE PropertyStep(current_value, Head(parts), ref_path))

resolve_reference(ref_path, data) == WalkParts(Split(ref_path, "."), data, ref_path)

(***************************************************************************)
(* str(value) and repr(value), as used when a resolved value is embedded   *)
(* in a string.  (repr of a string is written with single quotes; no       *)
(* string of the model holds a quote or a backslash inside a collection.)  *)
(***************************************************************************)
RECURSIVE IntStr(_)
IntStr(n) ==
    IF n < 0 THEN <<"-">> \o IntStr(0 - n)
    ELSE IF n < 10 THEN <<Digits[n + 1]>>
    ELSE IntStr(n \div 10) \o <<Digits[(n % 10) + 1]>>

FloatStr(t) ==
    IF t < 0 THEN <<"-">> \o IntStr((0 - t) \div 10) \o <<".">> \o IntStr((0 - t) % 10)
    ELSE IntStr(t \div 10) \o <<".">> \o IntStr(t % 10)

RECURSIVE Repr(_, _)
RECURSIVE ReprItems(_, _)
RECURSIVE ReprEntries(_, _, _)
ReprItems(items, i) ==
    IF i > Len(items) THEN <<>>
    ELSE (IF i > 1 THEN <<",", " ">> ELSE <<>>) \o Repr(items[i], TRUE)
         \o ReprItems(items, i + 1)

ReprEntries(keys, items, i) ==
    IF i > Len(items) THEN <<>>
    ELSE (IF i > 1 THEN <<",", " ">> ELSE <<>>) \o Repr(keys[i], TRUE)
         \o <<":", " ">> \o Repr(items[i], TRUE) \o ReprEntries(keys, items, i + 1)

Repr(value, quoted) ==
    CASE value.kind = "str" ->
            IF quoted THEN <<"'">> \o value.s \o <<"'">> ELSE value.s
      [] value.kind = "int" -> IntStr(value.n)
      [] value.kind = "float" -> FloatStr(value.n)
      [] value.kind = "bool" ->
            IF value.n = 1 THEN <<"T","r","u","e">> ELSE <<"F","a","l","s","e">>
      [] value.kind = "null" -> <<"N","o","n","e">>
      [] value.kind = "list" -> <<"[">> \o ReprItems(value.items, 1) \o <<"]">>
      [] value.kind = "map" ->
            <<"{">> \o ReprEntries(value.keys, value.items, 1) \o <<"}">>

Str(value) == Repr(value, FALSE)

(***************************************************************************)
(* The embedded-reference pattern of resolve_references_in_value: an "&",  *)
(* an identifier, any number of ".identifier", then any number of          *)
(* "[digits]", each part matched greedily.  RefEnd(s, i) is the index of   *)
(* the last character of the match that starts at the "&" at index i, and  *)
(* 0 when there is none.                                                   *)
(***************************************************************************)
RECURSIVE IdentEnd(_, _)
IdentEnd(s, j) ==
    IF j + 1 <= Len(s) /\ IsIdChar(s[j + 1]) THEN IdentEnd(s, j + 1) ELSE j

RECURSIVE DottedEnd(_, _)
DottedEnd(s, j) ==
    IF j + 2 <= Len(s) /\ s[j + 1] = "." /\ IsIdStart(s[j + 2])
    THEN DottedEnd(s, IdentEnd(s, j + 2))
    ELSE j

RECURSIVE DigitsEnd(_, _)
DigitsEnd(s, j) ==
    IF j + 1 <= Len(s) /\ IsDigit(s[j + 1]) THEN DigitsEnd(s, j + 1) ELSE j

RECURSIVE IndexedEnd(_, _)
IndexedEnd(s, j) ==
    IF j + 2 <= Len(s) /\ s[j + 1] = "[" /\ IsDigit(s[j + 2])
    THEN LET e == DigitsEnd(s, j + 2)
         IN  IF e + 1 <= Len(s) /\ s[e + 1] = "]" THEN IndexedEnd(s, e + 1) ELSE j
    ELSE j

RefEnd(s, i) ==
    IF s[i] = "&" /\ i + 1 <= Len(s) /\ IsIdStart(s[i + 1])
    THEN IndexedEnd(s, DottedEnd(s, IdentEnd(s, i + 1)))
    ELSE 0

(***************************************************************************)
(* TACLParser.resolve_references_in_value.  The outcome carries the set    *)
(* visited_refs as the call leaves it (vis): the code shares one mutable   *)
(* set among all the recursive calls made for one field.                   *)
(***************************************************************************)
ROk(v, vis) == [ok |-> TRUE, val |-> v, err |-> NoErr, vis |-> vis]

RFail(e, vis) == [ok |-> FALSE, val |-> VNull, err |-> e, vis |-> vis]

\* replace_ref: the replacement text of one embedded match
replace_ref(ref_path, data, vis) ==
    LET Text(resolved_ref) ==
            IF ~resolved_ref.ok
            THEN RFail(resolved_ref.err, vis)
            ELSE ROk(VStr(IF resolved_ref.val.kind = "str"
                          THEN resolved_ref.val.s
                          ELSE Str(resolved_ref.val)), vis)
    IN  IF ref_path \in vis
        THEN RFail(RefErr("Circular reference detected", ref_path), vis)
        ELSE Text(resolve_reference(ref_path, data))

\* re.sub(pattern, replace_ref, value): left to right, the replacement text
\* is not scanned again
RECURSIVE SubRefs(_, _, _, _, _)
SubRefs(s, i, data, vis, acc) ==
    LET Replaced(r, e) ==
            IF r.ok THEN SubRefs(s, e + 1, data, r.vis, acc \o r.val.s) ELSE r
        Scan(e) ==
            IF e = 0 THEN SubRefs(s, i + 1, data, vis, Append(acc, s[i]))
            ELSE Replaced(replace_ref(SubSeq(s, i + 1, e), data, vis), e)
    IN  IF i > Len(s) THEN ROk(VStr(acc), vis) ELSE Scan(RefEnd(s, i))

RECURSIVE resolve_references_in_value(_, _, _)
RECURSIVE ResolveItems(_, _, _, _)

\* the loop over the items of a list or the values of a dict, in order,
\* stopping at the first exception
ResolveItems(items, i, data, vis) ==
    LET Cons(r, rest) ==
            IF ~rest.ok THEN rest
            ELSE [ok |-> TRUE, vals |-> <<r.val>> \o rest.vals,
                  err |-> NoErr, vis |-> rest.vis]
        First(r) ==
            IF ~r.ok
            THEN [ok |-> FALSE, vals |-> <<>>, err |-> r.err, vis |-> r.vis]
            ELSE Cons(r, ResolveItems(items, i + 1, data, r.vis))
    IN  IF i > Len(items)
        THEN [ok |-> TRUE, vals |-> <<>>, err |-> NoErr, vis |-> vis]
        ELSE First(resolve_references_in_value(items[i], data, vis))

\* WholeReference with a revisited path left unresolved instead of an error
WholeReferenceNoRaise(value, data, vis) ==
    LET ref_path == Tail(value.s)
        Leave(r) == IF r.ok THEN ROk(r.val, r.vis \ {ref_path}) ELSE r
        Follow(resolved_value, visited) ==
            IF ~resolved_value.ok THEN RFail(resolved_value.err, visited)
            ELSE Leave(resolve_references_in_value(resolved_value.val, data, visited))
    IN  IF ref_path \in vis
        THEN ROk(value, vis)
        ELSE Follow(resolve_reference(ref_path, data), vis \cup {ref_path})

\* WholeReference with the path left in visited_refs on return
WholeReferenceKeepsVisited(value, data, vis) ==
    LET ref_path == Tail(value.s)
        Follow(resolved_value, visited) ==
            IF ~resolved_value.ok THEN RFail(resolved_value.err, visited)
            ELSE resolve_references_in_value(resolved_value.val, data, visited)
    IN  IF ref_path \in vis
        THEN RFail(RefErr("Circular reference detected", ref_path), vis)
        ELSE Follow(resolve_reference(ref_path, data), vis \cup {ref_path})

WholeReference(value, data, vis) ==
    LET ref_path == Tail(value.s)
        Leave(r) == IF r.ok THEN ROk(r.val, r.vis \ {ref_path}) ELSE r
        Follow(resolved_value, visited) ==
            IF ~resolved_value.ok THEN RFail(resolved_value.err, visited)
            ELSE Leave(resolve_references_in_value(resolved_value.val, data, visited))
    IN  IF ref_path \in vis
        THEN RFail(RefErr("Circular reference detected", ref_path), vis)
        ELSE Follow(resolve_reference(ref_path, data), vis \cup {ref_path})

EmbeddedReferences(value, data, vis) == SubRefs(value.s, 1, data, vis, <<>>)

resolve_references_in_value(value, data, vis) ==
    CASE value.kind = "map" ->
            LET Dict(r) == IF r.ok THEN ROk(VMap(value.keys, r.vals), r.vis)
                           ELSE RFail(r.err, r.vis)
            IN  Dict(ResolveItems(value.items, 1, data, vis))
      [] value.kind = "list" ->
            LET List(r) == IF r.ok THEN ROk(VList(r.vals), r.vis)
                           ELSE RFail(r.err, r.vis)
            IN  List(ResolveItems(value.items, 1, data, vis))
      [] value.kind = "str" ->
            IF StartsWith(value.s, "&") THEN WholeReference(value, data, vis)
            ELSE IF HasChar(value.s, "&") THEN EmbeddedReferences(value, data, vis)
            ELSE ROk(value, vis)
      [] OTHER -> ROk(value, vis)

(***************************************************************************)
(* TACLType.  An absent optional attribute (None) is the empty sequence, a *)
(* present one a sequence of one element.                                  *)
(***************************************************************************)
TType(kind) ==
    [kind |-> kind, inner_type |-> <<>>, key_type |-> <<>>, union_types |-> <<>>,
     literal_values |-> <<>>, custom_name |-> <<>>]

TString == TType("string")
TInt == TType("int")
TBool == TType("bool")
TFloat == TType("float")
TNull == TType("null")
TObject == TType("object")
TList(t) == [TType("list") EXCEPT !.inner_type = <<t>>]
TOptional(t) == [TType("optional") EXCEPT !.inner_type = <<t>>]
TDict(k, v) == [TType("dict") EXCEPT !.key_type = <<k>>, !.inner_type = <<v>>]
TUnion(ms) == [TType("union") EXCEPT !.union_types = ms]
TLiteral(toks) == [TType("literal") EXCEPT !.literal_values = toks]
TCustom(name) == [TType("custom") EXCEPT !.custom_name = name]

\* TypeDefinition: fields is an ordered dict, kept as two parallel sequences
TypeDef(name, fnames, ftypes) == [name |-> name, fnames |-> fnames, ftypes |-> ftypes]

HasTypeDef(types, name) == \E i \in 1..Len(types) : types[i].name = name

\* a later registration of a name replaces the earlier one
GetTypeDef(types, name) ==
    types[CHOOSE i \in 1..Len(types) :
             types[i].name = name /\ \A j \in (i+1)..Len(types) : types[j].name # name]

(***************************************************************************)
(* TACLParser.parse_type.  The outcome is the type term or the ParseError  *)
(* raised; the message of a ParseError of parse_type holds no line number. *)
(***************************************************************************)
ParseErr(tag, arg) == Err("ParseError", tag, <<>>, arg)

TypeOk(type) == [ok |-> TRUE, type |-> type, err |-> NoErr]

TypeFail(tag, arg) == [ok |-> FALSE, type |-> TObject, err |-> ParseErr(tag, arg)]

\* the number of "[" less the number of "]" among the first i characters
DepthAt(s, i) ==
    Cardinality({j \in 1..i : s[j] = "["}) - Cardinality({j \in 1..i : s[j] = "]"})

\* parse_type calls itself once per bracketed form inside another: an
\* annotation nested deeper than the stack has room for ends the call with
\* the interpreter's RecursionError, which is no ParseError
Overflows(type_str) == \E i \in 1..Len(type_str) : DepthAt(type_str, i) > MaxDepth

TypeOverflow ==
    [ok |-> FALSE, type |-> TObject,
     err |-> Err("RecursionError", "maximum recursion depth exceeded", <<>>, <<>>)]

\* type_str.startswith(prefix)
StartsWithStr(s, prefix) ==
    Len(s) >= Len(prefix) /\ SubSeq(s, 1, Len(prefix)) = prefix

\* type_str.startswith(prefix) and type_str.endswith("]")
IsBracketed(type_str, prefix) == StartsWithStr(type_str, prefix) /\ EndsWith(type_str, "]")

\* type_str[len(prefix):-1]
Inner(type_str, prefix) == SubSeq(type_str, Len(prefix) + 1, Len(type_str) - 1)

\* str.isidentifier(), for ASCII text
IsIdentifier(s) ==
    Len(s) > 0 /\ IsIdStart(s[1]) /\ \A i \in 2..Len(s) : IsIdChar(s[i])

\* the scan of literal_inner: split at the commas outside quotes, a
\* backslash keeping the next character, empty values dropped
RECURSIVE LiteralValues(_, _, _, _, _)
LiteralValues(rest, current_value, in_quotes, escape_next, literal_values) ==
    LET Closed(value) ==
            IF Len(value) > 0 THEN Append(literal_values, value) ELSE literal_values
    IN  IF rest = <<>> THEN Closed(Strip(current_value))
        ELSE IF escape_next
        THEN LiteralValues(Tail(rest), Append(current_value, Head(rest)),
                           in_quotes, FALSE, literal_values)
        ELSE IF Head(rest) = "\\"
        THEN LiteralValues(Tail(rest), Append(current_value, Head(rest)),
                           in_quotes, TRUE, literal_values)
        ELSE IF Head(rest) = "\""
        THEN LiteralValues(Tail(rest), Append(current_value, Head(rest)),
                           ~in_quotes, FALSE, literal_values)
        ELSE IF Head(rest) = "," /\ ~in_quotes
        THEN LiteralValues(Tail(rest), <<>>, in_quotes, FALSE,
                           Closed(Strip(current_value)))
        ELSE LiteralValues(Tail(rest), Append(current_value, Head(rest)),
                           in_quotes, FALSE, literal_values)

PrimitiveNames ==
    { <<"s","t","r","i","n","g">>, <<"i","n","t">>, <<"b","o","o","l">>,
      <<"f","l","o","a","t">>, <<"n","u","l","l">>, <<"o","b","j","e","c","t">> }

\* TypeKind(type_str) for the name of a primitive type
PrimitiveKind(type_str) ==
    CASE type_str = <<"s","t","r","i","n","g">> -> "string"
      [] type_str = <<"i","n","t">> -> "int"
      [] type_str = <<"b","o","o","l">> -> "bool"
      [] type_str = <<"f","l","o","a","t">> -> "float"
      [] type_str = <<"n","u","l","l">> -> "null"
      [] type_str = <<"o","b","j","e","c","t">> -> "object"

RECURSIVE parse_type(_)
RECURSIVE ParseUnionParts(_, _, _)

\* optional[...] and list[...]
ParseWrapped(kind, inner_type_str, empty_tag) ==
    LET Wrap(inner_type) ==
            IF ~inner_type.ok THEN inner_type
            ELSE TypeOk([TType(kind) EXCEPT !.inner_type = <<inner_type.type>>])
    IN  IF Len(inner_type_str) = 0 THEN TypeFail(empty_tag, <<>>)
        ELSE Wrap(parse_type(inner_type_str))

\* dict[K, V]: the text is split at its first comma
ParseDictPair(key_type_str, value_type_str) ==
    LET Pair(key_type, value_type) ==
            IF ~value_type.ok THEN value_type
            ELSE TypeOk(TDict(key_type.type, value_type.type))
        Value(key_type) ==
            IF ~key_type.ok THEN key_type
            ELSE Pair(key_type, parse_type(value_type_str))
    IN  IF Len(key_type_str) = 0 \/ Len(value_type_str) = 0
        THEN TypeFail("Dict key and value types cannot be empty", <<>>)
        ELSE Value(parse_type(key_type_str))

ParseDict(dict_inner) ==
    LET Shorthand(value_type) ==
            IF ~value_type.ok THEN value_type
            ELSE TypeOk(TDict(TString, value_type.type))
        AtComma(k) ==
            ParseDictPair(Strip(SubSeq(dict_inner, 1, k - 1)),
                          Strip(SubSeq(dict_inner, k + 1, Len(dict_inner))))
    IN  IF Len(dict_inner) = 0 THEN TypeFail("Dict type cannot be empty", <<>>)
        ELSE IF HasChar(dict_inner, ",") THEN AtComma(FirstIndex(dict_inner, ","))
        ELSE Shorthand(parse_type(Strip(dict_inner)))

\* ParseLiteral without the test for an empty list of values
ParseLiteralNoCount(literal_inner) ==
    IF Len(literal_inner) = 0 THEN TypeFail("Literal type cannot be empty", <<>>)
    ELSE TypeOk(TLiteral(LiteralValues(literal_inner, <<>>, FALSE, FALSE, <<>>)))

ParseLiteral(literal_inner) ==
    LET Made(literal_values) ==
            IF Len(literal_values) = 0
            THEN TypeFail("Literal type must have at least one value", <<>>)
            ELSE TypeOk(TLiteral(literal_values))
    IN  IF Len(literal_inner) = 0 THEN TypeFail("Literal type cannot be empty", <<>>)
        ELSE Made(LiteralValues(literal_inner, <<>>, FALSE, FALSE, <<>>))

\* for part_raw in union_inner.split(",")
ParseUnionParts(parts, i, union_types) ==
    LET Member(union_type) ==
            IF ~union_type.ok THEN union_type
            ELSE ParseUnionParts(parts, i + 1, Append(union_types, union_type.type))
        Part(part) ==
            IF Len(part) = 0 THEN TypeFail("Union type parts cannot be empty", <<>>)
            ELSE Member(parse_type(part))
    IN  IF i > Len(parts) THEN TypeOk(TUnion(union_types))
        ELSE Part(Strip(parts[i]))

ParseUnion(union_inner) ==
    IF Len(union_inner) = 0 THEN TypeFail("Union type cannot be empty", <<>>)
    ELSE ParseUnionParts(Split(union_inner, ","), 1, <<>>)

parse_type(str) ==
    LET Parse(type_str) ==
            IF Overflows(type_str) THEN TypeOverflow
            ELSE IF Len(type_str) = 0 THEN TypeFail("Empty type annotation", <<>>)
            ELSE IF IsBracketed(type_str, <<"o","p","t","i","o","n","a","l","[">>)
            THEN ParseWrapped("optional",
                              Inner(type_str, <<"o","p","t","i","o","n","a","l","[">>),
                              "Optional type cannot be empty")
            ELSE IF IsBracketed(type_str, <<"l","i","s","t","[">>)
            THEN ParseWrapped("list", Inner(type_str, <<"l","i","s","t","[">>),
                              "List type cannot be empty")
            ELSE IF IsBracketed(type_str, <<"d","i","c","t","[">>)
            THEN ParseDict(Inner(type_str, <<"d","i","c","t","[">>))
            ELSE IF IsBracketed(type_str, <<"l","i","t","e","r","a","l","[">>)
            THEN ParseLiteral(Inner(type_str, <<"l","i","t","e","r","a","l","[">>))
            ELSE IF IsBracketed(type_str, <<"u","n","i","o","n","[">>)
            THEN ParseUnion(Inner(type_str, <<"u","n","i","o","n","[">>))
            ELSE IF type_str \in PrimitiveNames THEN TypeOk(TType(PrimitiveKind(type_str)))
            ELSE IF ~IsIdentifier(type_str)
            THEN TypeFail("Invalid custom type name", type_str)
            ELSE TypeOk(TCustom(type_str))
    IN  Parse(Strip(str))

\* type(value).__name__
TypeName(value) ==
    CASE value.kind = "str" -> <<"s","t","r">>
      [] value.kind = "int" -> <<"i","n","t">>
      [] value.kind = "float" -> <<"f","l","o","a","t">>
      [] value.kind = "bool" -> <<"b","o","o","l">>
      [] value.kind = "null" -> <<"N","o","n","e","T","y","p","e">>
      [] value.kind = "list" -> <<"l","i","s","t">>
      [] value.kind = "map" -> <<"d","i","c","t">>

(***************************************************************************)
(* float(literal_val): an optional sign, digits with one ".", at least one *)
(* digit.  The value is kept in tenths: the tokens of the model write at   *)
(* most one fractional digit and no exponent.                              *)
(***************************************************************************)
ParseFloat(str) ==
    LET Value(negative, whole, frac) ==
            IF /\ \A i \in 1..Len(whole) : IsDigit(whole[i])
               /\ \A i \in 1..Len(frac) : IsDigit(frac[i])
               /\ Len(whole) + Len(frac) > 0
            THEN [ok |-> TRUE,
                  n |-> (IF negative THEN 0 - 1 ELSE 1) *
                        (10 * DigitsVal(whole, 0)
                         + (IF Len(frac) > 0 THEN DigitVal(frac[1]) ELSE 0))]
            ELSE [ok |-> FALSE, n |-> 0]
        Parse(s, parts) ==
            IF Len(parts) > 2 THEN [ok |-> FALSE, n |-> 0]
            ELSE Value(StartsWith(s, "-"), parts[1],
                       IF Len(parts) > 1 THEN parts[2] ELSE <<>>)
    IN  Parse(Strip(str), Split(Unsigned(Strip(str)), "."))

\* the numeric value of an int, bool or float, in tenths
Tenths(value) == IF value.kind = "float" THEN value.n ELSE 10 * value.n

(***************************************************************************)
(* TACLParser.validate_value.  The outcome is ok or the ValidationError    *)
(* raised: its format, the field path, the argument and the names listed.  *)
(***************************************************************************)
ValErr(tag, path, arg, names) ==
    [cls |-> "ValidationError", tag |-> tag, path |-> path, arg |-> arg,
     line |-> 0, names |-> names]

Valid == [ok |-> TRUE, err |-> ValErr("", <<>>, <<>>, <<>>)]

Invalid(tag, path, arg, names) == [ok |-> FALSE, err |-> ValErr(tag, path, arg, names)]

\* isinstance: in Python bool is a subclass of int, so a bool is an int too
IsInstanceStr(value) == value.kind = "str"

IsInstanceBool(value) == value.kind = "bool"

IsInstanceInt(value) == value.kind \in {"int", "bool"}

IsInstanceFloat(value) == value.kind = "float"

ValidateString(value, field_path) ==
    IF ~IsInstanceStr(value)
    THEN Invalid("expected string", field_path, TypeName(value), <<>>)
    ELSE Valid

\* ValidateInt without the exclusion of bool
ValidateIntAnyInt(value, field_path) ==
    IF ~IsInstanceInt(value)
    THEN Invalid("expected int", field_path, TypeName(value), <<>>)
    ELSE Valid

\* (not isinstance(value, int)) or isinstance(value, bool)
ValidateInt(value, field_path) ==
    IF ~IsInstanceInt(value) \/ IsInstanceBool(value)
    THEN Invalid("expected int", field_path, TypeName(value), <<>>)
    ELSE Valid

ValidateBool(value, field_path) ==
    IF ~IsInstanceBool(value)
    THEN Invalid("expected bool", field_path, TypeName(value), <<>>)
    ELSE Valid

\* ValidateFloat accepting a float only
ValidateFloatExact(value, field_path) ==
    IF ~IsInstanceFloat(value)
    THEN Invalid("expected float", field_path, TypeName(value), <<>>)
    ELSE Valid

\* (not isinstance(value, int | float)) or isinstance(value, bool)
ValidateFloat(value, field_path) ==
    IF ~(IsInstanceInt(value) \/ IsInstanceFloat(value)) \/ IsInstanceBool(value)
    THEN Invalid("expected float", field_path, TypeName(value), <<>>)
    ELSE Valid

ValidateNull(value, field_path) ==
    IF value.kind # "null"
    THEN Invalid("expected null", field_path, Str(value), <<>>)
    ELSE Valid

\* one literal token against the value
LiteralMatches(value, literal_val) ==
    IF StartsWith(literal_val, "\"") /\ EndsWith(literal_val, "\"")
    THEN IsInstanceStr(value) /\ value.s = SubSeq(literal_val, 2, Len(literal_val) - 1)
    ELSE IF HasChar(literal_val, ".")
    THEN LET FloatLiteral(literal_float) ==
                 /\ literal_float.ok
                 /\ (IsInstanceInt(value) \/ IsInstanceFloat(value))
                 /\ Tenths(value) = literal_float.n
         IN  FloatLiteral(ParseFloat(literal_val))
    ELSE LET IntLiteral(literal_int) ==
                 /\ literal_int.ok
                 /\ IsInstanceInt(value) /\ ~IsInstanceBool(value)
                 /\ value.n = literal_int.n
         IN  IntLiteral(ParseInt(literal_val))

ValidateLiteral(value, tacl_type, field_path) ==
    IF \E i \in 1..Len(tacl_type.literal_values) :
           LiteralMatches(value, tacl_type.literal_values[i])
    THEN Valid
    ELSE Invalid("not in allowed values", field_path, Str(value),
                 tacl_type.literal_values)

\* TypeKind.value, as text
KindValue(kind) ==
    CASE kind = "string" -> <<"s","t","r","i","n","g">>
      [] kind = "int" -> <<"i","n","t">>
      [] kind = "bool" -> <<"b","o","o","l">>
      [] kind = "float" -> <<"f","l","o","a","t">>
      [] kind = "null" -> <<"n","u","l","l">>
      [] kind = "list" -> <<"l","i","s","t">>
      [] kind = "dict" -> <<"d","i","c","t">>
      [] kind = "optional" -> <<"o","p","t","i","o","n","a","l">>
      [] kind = "union" -> <<"u","n","i","o","n">>
      [] kind = "literal" -> <<"l","i","t","e","r","a","l">>
      [] kind = "custom" -> <<"c","u","s","t","o","m">>
      [] kind = "object" -> <<"o","b","j","e","c","t">>

\* the name listed for a union member in the error message
UnionTypeName(union_type) ==
    IF union_type.kind = "custom" THEN union_type.custom_name
    ELSE KindValue(union_type.kind)

RECURSIVE validate_value(_, _, _, _)
RECURSIVE ValidateListItems(_, _, _, _, _)
RECURSIVE ValidateDictEntries(_, _, _, _, _)
RECURSIVE ValidateUnionFrom(_, _, _, _, _)
RECURSIVE ValidateCustomFields(_, _, _, _, _)

\* for index, item in enumerate(value)
ValidateListItems(value, tacl_type, field_path, types, i) ==
    LET Item(r) ==
            IF r.ok THEN ValidateListItems(value, tacl_type, field_path, types, i + 1)
            ELSE r
    IN  IF i > Len(value.items) THEN Valid
        ELSE Item(validate_value(value.items[i], tacl_type.inner_type[1],
                                 field_path \o <<"[">> \o IntStr(i - 1) \o <<"]">>,
                                 types))

\* for dict_key, dict_value in value.items()
ValidateDictEntries(value, tacl_type, field_path, types, i) ==
    LET DictValue(rv) ==
            IF rv.ok THEN ValidateDictEntries(value, tacl_type, field_path, types, i + 1)
            ELSE rv
        DictKey(rk) ==
            IF ~rk.ok THEN rk
            ELSE DictValue(validate_value(
                     value.items[i], tacl_type.inner_type[1],
                     field_path \o <<"[">> \o Str(value.keys[i]) \o <<"]">>, types))
    IN  IF i > Len(value.items) THEN Valid
        ELSE DictKey(validate_value(value.keys[i], tacl_type.key_type[1],
                                    field_path \o <<".","k","e","y">>, types))

\* ValidateUnionFrom trying the member at i only
ValidateUnionFirstOnly(value, tacl_type, field_path, types, i) ==
    IF i <= Len(tacl_type.union_types)
       /\ validate_value(value, tacl_type.union_types[i], field_path, types).ok
    THEN Valid
    ELSE Invalid("does not match any union type", field_path, <<>>,
                 [j \in 1..Len(tacl_type.union_types) |->
                     UnionTypeName(tacl_type.union_types[j])])

\* for union_type in tacl_type.union_types: the first member that validates
ValidateUnionFrom(value, tacl_type, field_path, types, i) ==
    IF i > Len(tacl_type.union_types)
    THEN Invalid("does not match any union type", field_path, <<>>,
                 [j \in 1..Len(tacl_type.union_types) |->
                     UnionTypeName(tacl_type.union_types[j])])
    ELSE IF validate_value(value, tacl_type.union_types[i], field_path, types).ok
    THEN Valid
    ELSE ValidateUnionFrom(value, tacl_type, field_path, types, i + 1)

\* for field_name, field_type in type_def.fields.items()
ValidateCustomFields(value, type_def, field_path, types, i) ==
    LET field_name == type_def.fnames[i]
        field_type == type_def.ftypes[i]
        Present(r) ==
            IF r.ok THEN ValidateCustomFields(value, type_def, field_path, types, i + 1)
            ELSE r
    IN  IF i > Len(type_def.fnames) THEN Valid
        ELSE IF ~MapHas(value, field_name)
        THEN IF field_type.kind # "optional"
             THEN Invalid("missing required field", field_path, field_name,
                          <<type_def.name>>)
             ELSE ValidateCustomFields(value, type_def, field_path, types, i + 1)
        ELSE Present(validate_value(MapGet(value, field_name), field_type,
                                    field_path \o <<".">> \o field_name, types))

\* for field_name in value: if field_name not in type_def.fields
IsDeclaredField(type_def, key) ==
    key.kind = "str" /\ \E j \in 1..Len(type_def.fnames) : type_def.fnames[j] = key.s

\* ExtraFields of an open record: no key counts as extra
ExtraFieldsIgnored(value, type_def) == {}

ExtraFields(value, type_def) ==
    {i \in 1..Len(value.keys) : ~IsDeclaredField(type_def, value.keys[i])}

ValidateCustom(value, tacl_type, field_path, types) ==
    IF value.kind # "map"
    THEN Invalid("expected object for type", field_path, <<>>, <<tacl_type.custom_name>>)
    ELSE IF ~HasTypeDef(types, tacl_type.custom_name) THEN Valid
    ELSE LET Closed(r, extra) ==
                 IF ~r.ok THEN r
                 ELSE IF extra # {}
                 THEN Invalid("unexpected field", field_path,
                              Str(value.keys[CHOOSE i \in extra : \A j \in extra : i <= j]),
                              <<tacl_type.custom_name>>)
                 ELSE Valid
             Check(type_def) ==
                 Closed(ValidateCustomFields(value, type_def, field_path, types, 1),
                        ExtraFields(value, type_def))
         IN  Check(GetTypeDef(types, tacl_type.custom_name))

validate_value(value, tacl_type, field_path, types) ==
    CASE tacl_type.kind = "optional" ->
            IF value.kind = "null" THEN Valid
            ELSE validate_value(value, tacl_type.inner_type[1], field_path, types)
      [] tacl_type.kind = "string" -> ValidateString(value, field_path)
      [] tacl_type.kind = "int" -> ValidateInt(value, field_path)
      [] tacl_type.kind = "bool" -> ValidateBool(value, field_path)
      [] tacl_type.kind = "float" -> ValidateFloat(value, field_path)
      [] tacl_type.kind = "null" -> ValidateNull(value, field_path)
      [] tacl_type.kind = "list" ->
            IF value.kind # "list"
            THEN Invalid("expected list", field_path, TypeName(value), <<>>)
            ELSE ValidateListItems(value, tacl_type, field_path, types, 1)
      [] tacl_type.kind = "dict" ->
            IF value.kind # "map"
            THEN Invalid("expected dict", field_path, TypeName(value), <<>>)
            ELSE ValidateDictEntries(value, tacl_type, field_path, types, 1)
      [] tacl_type.kind = "literal" -> ValidateLiteral(value, tacl_type, field_path)
      [] tacl_type.kind = "union" ->
            ValidateUnionFrom(value, tacl_type, field_path, types, 1)
      [] tacl_type.kind = "object" -> Valid
      [] tacl_type.kind = "custom" -> ValidateCustom(value, tacl_type, field_path, types)

(***************************************************************************)
(* The value-literal adapter (yaml.safe_load) on one inline scalar: the    *)
(* plain scalars null, booleans, integers and floats, quoted strings, and  *)
(* any other text as a string.                                             *)
(***************************************************************************)
safe_load(str) ==
    LET Scalar(s, int, float) ==
            IF s = <<>> \/ s = <<"n","u","l","l">> \/ s = <<"~">> THEN VNull
            ELSE IF s = <<"t","r","u","e">> THEN VBool(TRUE)
            ELSE IF s = <<"f","a","l","s","e">> THEN VBool(FALSE)
            ELSE IF Len(s) >= 2 /\ StartsWith(s, "\"") /\ EndsWith(s, "\"")
            THEN VStr(SubSeq(s, 2, Len(s) - 1))
            ELSE IF int.ok THEN VInt(int.n)
            ELSE IF HasChar(s, ".") /\ float.ok THEN VFloat(float.n)
            ELSE VStr(s)
    IN  Scalar(Strip(str), ParseInt(str), ParseFloat(str))

(***************************************************************************)
(* TACLParser._parse_value_with_references: a bracketed list is split at   *)
(* its commas, an item that starts with "&" kept as a string; any other    *)
(* text is kept as it is written, quotes included.                         *)
(***************************************************************************)
RECURSIVE ReferenceListItems(_)
ReferenceListItems(parts) ==
    IF parts = <<>> THEN <<>>
    ELSE LET Item(item) == IF StartsWith(item, "&") THEN VStr(item) ELSE safe_load(item)
         IN  <<Item(Strip(Head(parts)))>> \o ReferenceListItems(Tail(parts))

parse_value_with_references(str) ==
    LET Items(list_content) ==
            IF list_content = <<>> THEN VList(<<>>)
            ELSE VList(ReferenceListItems(Split(list_content, ",")))
        Parse(value_str) ==
            IF StartsWith(value_str, "[") /\ EndsWith(value_str, "]")
            THEN Items(Strip(SubSeq(value_str, 2, Len(value_str) - 1)))
            ELSE IF StartsWith(value_str, "{") /\ EndsWith(value_str, "}")
            THEN safe_load(value_str)
            ELSE VStr(value_str)
    IN  Parse(Strip(str))

\* the single-line value of a top-level field (pass one)
InlineValue(str) ==
    LET Parse(value_str) ==
            IF StartsWith(value_str, "&") THEN VStr(value_str)
            ELSE IF HasChar(value_str, "&") THEN parse_value_with_references(value_str)
            ELSE safe_load(value_str)
    IN  Parse(Strip(str))

RECURSIVE JoinWith(_, _)
JoinWith(parts, sep) ==
    IF Len(parts) = 0 THEN <<>>
    ELSE IF Len(parts) = 1 THEN parts[1]
    ELSE parts[1] \o sep \o JoinWith(Tail(parts), sep)

\* the annotation that writes a type term: type names and bracketed forms,
\* the members of a union and the tokens of a literal separated by ", "
RECURSIVE Annotation(_)
Annotation(t) ==
    CASE t.kind = "custom" -> t.custom_name
      [] t.kind = "optional" ->
            <<"o","p","t","i","o","n","a","l","[">> \o Annotation(t.inner_type[1]) \o <<"]">>
      [] t.kind = "list" ->
            <<"l","i","s","t","[">> \o Annotation(t.inner_type[1]) \o <<"]">>
      [] t.kind = "dict" ->
            <<"d","i","c","t","[">> \o Annotation(t.key_type[1]) \o <<",">>
                \o Annotation(t.inner_type[1]) \o <<"]">>
      [] t.kind = "union" ->
            <<"u","n","i","o","n","[">>
                \o JoinWith([m \in 1..Len(t.union_types) |-> Annotation(t.union_types[m])],
                            <<",", " ">>)
                \o <<"]">>
      [] t.kind = "literal" ->
            <<"l","i","t","e","r","a","l","[">> \o JoinWith(t.literal_values, <<",", " ">>)
                \o <<"]">>
      [] OTHER -> KindValue(t.kind)

(***************************************************************************)
(* The source document: an @type block followed by top-level field lines.  *)
(* A field line holds its key, its type annotation, and either the text    *)
(* after the colon (value_str) or, when that text is empty, the indented   *)
(* block that follows (block).                                             *)
(***************************************************************************)
NoTypeDef == TypeDef(<<>>, <<>>, <<>>)

\* an @type block: its name and, per indented line, a field name and the
\* annotation written after the semicolon
TypeDefItem(type_def, line) ==
    [kind |-> "typedef", key |-> <<>>, type_str |-> <<>>, value_str |-> <<>>,
     block |-> VNull, line |-> line, type_def |-> type_def]

FieldItem(key, type_str, value_str, block, line) ==
    [kind |-> "field", key |-> key, type_str |-> type_str, value_str |-> value_str,
     block |-> block, line |-> line, type_def |-> NoTypeDef]

TACLField(key, type, value, line) ==
    [key |-> key, type_annotation |-> type, value |-> value, line_number |-> line]

\* @type P: x; int / y; optional[string]
PersonDef == TypeDef(<<"P">>, << <<"x">>, <<"y">> >>, <<TInt, TOptional(TString)>>)

\* the lines of the block that declares type_def
BlockText(type_def) ==
    [type_def EXCEPT !.ftypes = [i \in DOMAIN type_def.ftypes |-> Annotation(type_def.ftypes[i])]]

\* @type P: x; int / y; optional[]
BadPersonText ==
    TypeDef(<<"P">>, << <<"x">>, <<"y">> >>,
            << <<"i","n","t">>, <<"o","p","t","i","o","n","a","l","[","]">> >>)

TypeBlocks == {BlockText(PersonDef), BadPersonText}

\* the lines an @type block takes: its header, its fields, the blank line after
TypeBlockLines(type_def) == Len(type_def.fnames) + 2

KeyNames == << <<"a">>, <<"b">>, <<"c">>, <<"d">>, <<"e">> >>

\* the block   x: 1
BlockX1 == VMap(<<VStr(<<"x">>)>>, <<VInt(1)>>)

\* the block   x: 1 / y: &b.x
BlockXY == VMap(<<VStr(<<"x">>), VStr(<<"y">>)>>, <<VInt(1), VStr(<<"&","b",".","x">>)>>)

\* the declarations a field line is drawn from: a type annotation and a value
Declarations ==
    { [type_str |-> Annotation(TString), value_str |-> <<"&","b">>, block |-> VNull],
      [type_str |-> Annotation(TObject), value_str |-> <<"&","c">>, block |-> VNull],
      [type_str |-> Annotation(TObject), value_str |-> <<"&","a">>, block |-> VNull],
      [type_str |-> Annotation(TInt), value_str |-> <<"&","b",".","x">>, block |-> VNull],
      [type_str |-> Annotation(TObject), value_str |-> <<>>, block |-> BlockXY],
      [type_str |-> Annotation(TString), value_str |-> <<"\"","&","b",".","y","\"">>,
       block |-> VNull],
      [type_str |-> Annotation(TCustom(<<"P">>)), value_str |-> <<>>, block |-> BlockX1],
      [type_str |-> Annotation(TString), value_str |-> <<"\"","&","b","\"">>, block |-> VNull],
      [type_str |-> Annotation(TString), value_str |-> <<"\"","&","a","\"">>, block |-> VNull],
      [type_str |-> Annotation(TString), value_str |-> <<"v">>, block |-> VNull],
      [type_str |-> Annotation(TInt), value_str |-> <<"1">>, block |-> VNull],
      [type_str |-> <<"l","i","s","t","[","]">>, value_str |-> <<"1">>, block |-> VNull] }

\* the lines a field takes: its own line and one per entry of its block
FieldLines(decl) == 1 + (IF decl.block.kind = "map" THEN Len(decl.block.keys) ELSE 0)

\* the 1-based line the i-th field line stands on
RECURSIVE LineOf(_, _)
LineOf(ds, i) ==
    IF i = 1 THEN TypeBlockLines(PersonDef) + 1
    ELSE LineOf(ds, i - 1) + FieldLines(ds[i - 1])

\* the document made of an @type block of P and one field line per declaration
Document(type_block, ds) ==
    <<TypeDefItem(type_block, 1)>> \o
    [i \in DOMAIN ds |-> FieldItem(KeyNames[i], ds[i].type_str, ds[i].value_str,
                                   ds[i].block, LineOf(ds, i))]

NoResult == VNull

UnitIdle == [ok |-> TRUE, val |-> VNull, err |-> NoErr]

\* no parse_type call has returned
NoType == TypeOk(TObject)

Init ==
    /\ \E type_block \in TypeBlocks : \E n \in 1..MaxFields :
           \E ds \in [1..n -> Declarations] : doc = Document(type_block, ds)
    /\ custom_types = <<>>
    /\ fields = <<>>
    /\ parsed_data = EmptyMap
    /\ idx = 1
    /\ pc = "pass1"
    /\ error = NoErr
    /\ result = NoResult
    /\ uval = VNull /\ utype = TObject /\ upath = <<>> /\ udata = EmptyMap
    /\ ures = UnitIdle
    /\ ustr = <<>> /\ uparsed = NoType

UnitUnchanged == UNCHANGED <<uval, utype, upath, udata, ures, ustr, uparsed>>

(***************************************************************************)
(* Pass one of parse_tacl_content.                                         *)
(***************************************************************************)
\* field_type = parser.parse_type(field_type_str), for each line of the block
RECURSIVE ParseTypeFields(_, _, _)
ParseTypeFields(type_strs, i, field_types) ==
    IF i > Len(type_strs) THEN [ok |-> TRUE, types |-> field_types, err |-> NoErr]
    ELSE LET Next1(r) ==
                 IF r.ok THEN ParseTypeFields(type_strs, i + 1, Append(field_types, r.type))
                 ELSE [ok |-> FALSE, types |-> <<>>, err |-> r.err]
         IN  Next1(parse_type(type_strs[i]))

\* an @type block: the definition is registered under its name
ScanTypeDef ==
    /\ pc = "pass1" /\ idx <= Len(doc) /\ doc[idx].kind = "typedef"
    /\ LET type_def == doc[idx].type_def
           Register(r) ==
               /\ r.ok
               /\ custom_types' = Append(custom_types, [type_def EXCEPT !.ftypes = r.types])
       IN  Register(ParseTypeFields(type_def.ftypes, 1, <<>>))
    /\ idx' = idx + 1
    /\ UNCHANGED <<doc, fields, parsed_data, pc, error, result>>
    /\ UnitUnchanged

\* an @type block one of whose annotations parse_type rejects
ScanTypeDefFails ==
    /\ pc = "pass1" /\ idx <= Len(doc) /\ doc[idx].kind = "typedef"
    /\ LET Raise(r) == ~r.ok /\ error' = r.err
       IN  Raise(ParseTypeFields(doc[idx].type_def.ftypes, 1, <<>>))
    /\ pc' = "failed"
    /\ UNCHANGED <<doc, custom_types, fields, parsed_data, idx, result>>
    /\ UnitUnchanged

\* a field line: its raw value and its type make a TACLField
ScanField ==
    /\ pc = "pass1" /\ idx <= Len(doc) /\ doc[idx].kind = "field"
    /\ LET item == doc[idx]
           Add(type_annotation) ==
               /\ type_annotation.ok
               /\ fields' = Append(fields, TACLField(
                         item.key, type_annotation.type,
                         IF Strip(item.value_str) = <<>> THEN item.block
                         ELSE InlineValue(item.value_str),
                         item.line))
       IN  Add(parse_type(item.type_str))
    /\ idx' = idx + 1
    /\ UNCHANGED <<doc, custom_types, parsed_data, pc, error, result>>
    /\ UnitUnchanged

\* ScanFieldFails with the field line passed over instead
ScanFieldSkips ==
    /\ pc = "pass1" /\ idx <= Len(doc) /\ doc[idx].kind = "field"
    /\ ~parse_type(doc[idx].type_str).ok
    /\ idx' = idx + 1
    /\ UNCHANGED <<doc, custom_types, fields, parsed_data, pc, error, result>>
    /\ UnitUnchanged

\* a field line whose annotation parse_type rejects: the ParseError leaves
\* parse_tacl_content as parse_type raised it
ScanFieldFails ==
    /\ pc = "pass1" /\ idx <= Len(doc) /\ doc[idx].kind = "field"
    /\ LET Raise(type_annotation) == ~type_annotation.ok /\ error' = type_annotation.err
       IN  Raise(parse_type(doc[idx].type_str))
    /\ pc' = "failed"
    /\ UNCHANGED <<doc, custom_types, fields, parsed_data, idx, result>>
    /\ UnitUnchanged

RECURSIVE TableOf(_, _)
TableOf(fs, table) ==
    IF fs = <<>> THEN table
    ELSE TableOf(Tail(fs), MapSet(table, Head(fs).key, Head(fs).value))

\* parsed_data[field.key] = field.value for every field
BuildTable ==
    /\ pc = "pass1" /\ idx > Len(doc)
    /\ parsed_data' = TableOf(fields, EmptyMap)
    /\ pc' = "pass2"
    /\ idx' = 1
    /\ UNCHANGED <<doc, custom_types, fields, error, result>>
    /\ UnitUnchanged

(***************************************************************************)
(* Pass two of parse_tacl_content: one field per step.                     *)
(***************************************************************************)
Resolved(field, data) == resolve_references_in_value(field.value, data, {})

\* Validated with the field's raw value checked in place of the resolved one
ValidatedRaw(field, value, types) ==
    validate_value(field.value, field.type_annotation, field.key, types)

Validated(field, value, types) ==
    validate_value(value, field.type_annotation, field.key, types)

\* Wrapped without the "Line N: " prefix
WrappedNoLine(cls, field, err) ==
    [err EXCEPT !.cls = cls]

\* raise cls(f"Line {field.line_number}: {err}")
Wrapped(cls, field, err) ==
    [err EXCEPT !.cls = cls, !.line = field.line_number]

\* raise TACLReferenceError(f"Line {field.line_number}: {ref_error}")
ResolveFails ==
    /\ pc = "pass2" /\ idx <= Len(fields)
    /\ LET field == fields[idx]
           Raise(r) ==
               /\ ~r.ok
               /\ error' = Wrapped("TACLReferenceError", field, r.err)
       IN  Raise(Resolved(field, parsed_data))
    /\ pc' = "failed"
    /\ UNCHANGED <<doc, custom_types, fields, parsed_data, idx, result>>
    /\ UnitUnchanged

\* raise ValidationError(f"Line {field.line_number}: {validation_error}")
ValidateFails ==
    /\ pc = "pass2" /\ idx <= Len(fields)
    /\ LET field == fields[idx]
           Raise(v) ==
               /\ ~v.ok
               /\ error' = Wrapped("ValidationError", field, v.err)
           Validate(r) ==
               /\ r.ok
               /\ Raise(Validated(field, r.val, custom_types))
       IN  Validate(Resolved(field, parsed_data))
    /\ pc' = "failed"
    /\ UNCHANGED <<doc, custom_types, fields, parsed_data, idx, result>>
    /\ UnitUnchanged

\* StoreField with the table left as pass one built it
StoreFieldKeepsRaw ==
    /\ pc = "pass2" /\ idx <= Len(fields)
    /\ LET field == fields[idx]
           Store(r) ==
               /\ r.ok
               /\ Validated(field, r.val, custom_types).ok
       IN  Store(Resolved(field, parsed_data))
    /\ idx' = idx + 1
    /\ UNCHANGED <<doc, custom_types, fields, parsed_data, pc, error, result>>
    /\ UnitUnchanged

\* parsed_data[field.key] = resolved_value
StoreField ==
    /\ pc = "pass2" /\ idx <= Len(fields)
    /\ LET field == fields[idx]
           Store(r) ==
               /\ r.ok
               /\ Validated(field, r.val, custom_types).ok
               /\ parsed_data' = MapSet(parsed_data, field.key, r.val)
       IN  Store(Resolved(field, parsed_data))
    /\ idx' = idx + 1
    /\ UNCHANGED <<doc, custom_types, fields, pc, error, result>>
    /\ UnitUnchanged

\* return parsed_data
Return ==
    /\ pc = "pass2" /\ idx > Len(fields)
    /\ result' = parsed_data
    /\ pc' = "done"
    /\ UNCHANGED <<doc, custom_types, fields, parsed_data, idx, error>>
    /\ UnitUnchanged

Next ==
    \/ ScanTypeDef
    \/ ScanTypeDefFails
    \/ ScanField
    \/ ScanFieldFails
    \/ BuildTable
    \/ ResolveFails
    \/ ValidateFails
    \/ StoreField
    \/ Return

Spec == Init /\ [][Next]_vars

(***************************************************************************)
(* Direct calls of validate_value, on a parser whose registry holds the    *)
(* definitions of P and of W (a record with a field of type P).            *)
(***************************************************************************)
\* @type W: p; P / n; list[int]
WrapperDef == TypeDef(<<"W">>, << <<"p">>, <<"n">> >>, <<TCustom(<<"P">>), TList(TInt)>>)

UnitRegistry == <<PersonDef, WrapperDef>>

Scalars ==
    {VStr(<<"v">>), VInt(1), VInt(0), VBool(TRUE), VBool(FALSE), VFloat(15), VNull}

FieldScalars == {VStr(<<"v">>), VInt(1), VBool(TRUE), VNull}

ListsOf(S, n) == UNION {{VList(items) : items \in [1..k -> S]} : k \in 0..n}

\* the mappings over the keys x, y, z (any subset, in that order)
MapsOf(S) ==
    UNION { { VMap([i \in 1..Len(ks) |-> VStr(ks[i])], vs) : vs \in [1..Len(ks) -> S] }
            : ks \in { <<>>, << <<"x">> >>, << <<"y">> >>, << <<"z">> >>,
                       << <<"x">>, <<"y">> >>, << <<"x">>, <<"z">> >>,
                       << <<"y">>, <<"x">> >> } }

NestedValues ==
    { VList(<<VList(<<VInt(1)>>), VList(<<VBool(TRUE)>>)>>),
      VList(<<VMap(<<VStr(<<"x">>)>>, <<VInt(1)>>)>>),
      VList(<<VMap(<<VStr(<<"x">>)>>, <<VBool(FALSE)>>)>>),
      VMap(<<VStr(<<"p">>), VStr(<<"n">>)>>,
           <<VMap(<<VStr(<<"x">>)>>, <<VInt(1)>>), VList(<<VInt(1)>>)>>),
      VMap(<<VStr(<<"p">>), VStr(<<"n">>)>>,
           <<VMap(<<VStr(<<"x">>)>>, <<VBool(TRUE)>>), VList(<<VInt(1)>>)>>),
      VMap(<<VStr(<<"p">>), VStr(<<"n">>)>>,
           <<VMap(<<VStr(<<"x">>)>>, <<VInt(1)>>), VList(<<VInt(1), VBool(TRUE)>>)>>),
      VMap(<<VStr(<<"p">>)>>, <<VMap(<<VStr(<<"x">>)>>, <<VInt(1)>>)>>),
      VMap(<<VInt(1)>>, <<VInt(1)>>) }

UnitValues == Scalars \cup ListsOf(Scalars, MaxLen) \cup MapsOf(FieldScalars) \cup NestedValues

PrimitiveTypes == {TString, TInt, TBool, TFloat, TNull}

UnitTypes ==
    PrimitiveTypes \cup {TObject}
    \cup {TList(p) : p \in PrimitiveTypes}
    \cup {TOptional(p) : p \in PrimitiveTypes}
    \cup {TDict(TString, p) : p \in PrimitiveTypes}
    \cup { TList(TList(TInt)), TList(TOptional(TFloat)), TList(TCustom(<<"P">>)),
           TOptional(TList(TBool)), TDict(TInt, TInt),
           TUnion(<<TString, TInt>>), TUnion(<<TInt, TBool>>), TUnion(<<TFloat, TNull>>),
           TUnion(<<TInt, TFloat>>), TUnion(<<TCustom(<<"P">>), TInt>>),
           TLiteral(<< <<"\"","v","\"">>, <<"1">> >>), TLiteral(<< <<"1",".","0">> >>),
           TLiteral(<< <<"v">>, <<"1",".","5">>, <<"0">> >>),
           TCustom(<<"P">>), TCustom(<<"W">>), TCustom(<<"Q">>) }

UnitPath == <<"f">>

InitValidate ==
    /\ doc = <<>> /\ fields = <<>> /\ parsed_data = EmptyMap /\ idx = 1
    /\ error = NoErr /\ result = NoResult
    /\ custom_types = UnitRegistry
    /\ pc = "validate"
    /\ uval \in UnitValues
    /\ utype \in UnitTypes
    /\ upath = <<>> /\ udata = EmptyMap
    /\ ures = UnitIdle
    /\ ustr = <<>> /\ uparsed = NoType

ValidateCall ==
    /\ pc = "validate"
    /\ LET Outcome(v) == [ok |-> v.ok, val |-> VNull, err |-> v.err]
       IN  ures' = Outcome(validate_value(uval, utype, UnitPath, custom_types))
    /\ pc' = "returned"
    /\ UNCHANGED <<doc, custom_types, fields, parsed_data, idx, error, result,
                   uval, utype, upath, udata, ustr, uparsed>>

SpecValidate == InitValidate /\ [][ValidateCall]_vars

(***************************************************************************)
(* Direct calls of resolve_reference, on field tables as pass two holds    *)
(* them.                                                                   *)
(***************************************************************************)
PathParts ==
    { <<"a">>, <<"x">>, <<"p">>, <<"z">>, <<"v">>, <<"s">>, <<>>,
      <<"s","[","0","]">>, <<"s","[","1","]">>, <<"s","[","2","]">>,
      <<"s","[","-","1","]">>, <<"s","[","x","]">>, <<"s","[","]">>,
      <<"a","[","0","]">>, <<"z","[","0","]">>, <<"v","[","0","]">>,
      <<"s","[","0","]","[","0","]">>, <<"x","[","1","]">>, <<"s","[","0">> }

RECURSIVE JoinDot(_)
JoinDot(parts) ==
    IF Len(parts) = 1 THEN parts[1]
    ELSE parts[1] \o <<".">> \o JoinDot(Tail(parts))

UnitRefPaths == UNION {{JoinDot(ps) : ps \in [1..n -> PathParts]} : n \in 1..MaxParts}

PortMap(n) == VMap(<<VStr(<<"p">>)>>, <<VInt(n)>>)

\* a: {x: 1, s: [5, 6]}   s: [{p: 8}, {p: 9}]   v: "t"
ServicesTable ==
    VMap(<<VStr(<<"a">>), VStr(<<"s">>), VStr(<<"v">>)>>,
         <<VMap(<<VStr(<<"x">>), VStr(<<"s">>)>>, <<VInt(1), VList(<<VInt(5), VInt(6)>>)>>),
           VList(<<PortMap(8), PortMap(9)>>),
           VStr(<<"t">>)>>)

UnitTables ==
    { ServicesTable,
      \* s: []   a: 1
      VMap(<<VStr(<<"s">>), VStr(<<"a">>)>>, <<VList(<<>>), VInt(1)>>),
      \* s: {x: [7]}   a: "&s"   x: [[1], 2]
      VMap(<<VStr(<<"s">>), VStr(<<"a">>), VStr(<<"x">>)>>,
           <<VMap(<<VStr(<<"x">>)>>, <<VList(<<VInt(7)>>)>>),
             VStr(<<"&","s">>),
             VList(<<VList(<<VInt(1)>>), VInt(2)>>)>>) }

InitResolve ==
    /\ doc = <<>> /\ fields = <<>> /\ parsed_data = EmptyMap /\ idx = 1
    /\ error = NoErr /\ result = NoResult
    /\ custom_types = <<>>
    /\ pc = "resolve"
    /\ uval = VNull /\ utype = TObject
    /\ upath \in UnitRefPaths
    /\ udata \in UnitTables
    /\ ures = UnitIdle
    /\ ustr = <<>> /\ uparsed = NoType

ResolveReferenceCall ==
    /\ pc = "resolve"
    /\ ures' = resolve_reference(upath, udata)
    /\ pc' = "returned"
    /\ UNCHANGED <<doc, custom_types, fields, parsed_data, idx, error, result,
                   uval, utype, upath, udata, ustr, uparsed>>

SpecResolve == InitResolve /\ [][ResolveReferenceCall]_vars

(***************************************************************************)
(* Direct calls of parse_type, on annotations written from type terms and  *)
(* on annotations that are no type.                                        *)
(***************************************************************************)
BaseTerms == {TString, TInt, TCustom(<<"P">>)}

\* the one-level forms over the terms of S
Wrappers(S) ==
    {TOptional(t) : t \in S} \cup {TList(t) : t \in S}
    \cup {TDict(k, v) : k \in S, v \in S}
    \cup {TUnion(<<a, b>>) : a \in S, b \in S}

LiteralTerms ==
    { TLiteral(<< <<"\"","v","\"">>, <<"1">> >>), TLiteral(<< <<"1",".","0">> >>),
      TLiteral(<< <<"\"","a",",","b","\"">>, <<"x">> >>) }

\* the type terms of the grammar, two levels deep
AnnotationTerms ==
    {TBool, TFloat, TNull, TObject, TUnion(<<TInt, TFloat, TNull>>)}
    \cup BaseTerms \cup LiteralTerms \cup Wrappers(BaseTerms)
    \cup Wrappers(BaseTerms \cup LiteralTerms \cup Wrappers(BaseTerms))

\* annotations written otherwise: blanks, the dict shorthand, and text that
\* the grammar does not generate
OtherAnnotations ==
    { <<>>, <<" ">>, <<" ","i","n","t"," ">>,
      <<"l","i","s","t","["," ","i","n","t"," ","]">>,
      <<"d","i","c","t","[","i","n","t","]">>,
      <<"d","i","c","t","[","s","t","r","i","n","g",","," ","i","n","t","]">>,
      <<"l","i","s","t","[","]">>, <<"o","p","t","i","o","n","a","l","[","]">>,
      <<"d","i","c","t","[","]">>, <<"u","n","i","o","n","[","]">>,
      <<"l","i","t","e","r","a","l","[","]">>, <<"l","i","t","e","r","a","l","[",",","]">>,
      <<"l","i","t","e","r","a","l","["," ","]">>,
      <<"d","i","c","t","[",",","i","n","t","]">>, <<"d","i","c","t","[","i","n","t",",","]">>,
      <<"d","i","c","t","[","i","n","t",","," ","]">>,
      <<"u","n","i","o","n","[","i","n","t",",","]">>,
      <<"u","n","i","o","n","[",",","i","n","t","]">>,
      <<"u","n","i","o","n","[","i","n","t",",",",","i","n","t","]">>,
      <<"l","i","s","t","[","i","n","t">>, <<"l","i","s","t","[","i","n","t","]","]">>,
      <<"l","i","s","t","[","i","n","t","]","x">>,
      <<"l","i","s","t","[","l","i","s","t","[","i","n","t","]">>,
      <<"l","i","s","t","[","i","n","t","]","[","i","n","t","]">>,
      <<"l","i","s","t","[","[","]">>,
      <<"1","a">>, <<"a","-","b">>, <<"a"," ","b">>, <<"P","[","i","n","t","]">>,
      <<"l","i","s","t">>, <<"_","x","1">> }

InitParseType ==
    /\ doc = <<>> /\ fields = <<>> /\ parsed_data = EmptyMap /\ idx = 1
    /\ error = NoErr /\ result = NoResult
    /\ custom_types = <<>>
    /\ pc = "parse_type"
    /\ uval = VNull /\ upath = <<>> /\ udata = EmptyMap
    /\ ures = UnitIdle
    /\ uparsed = NoType
    /\ \/ \E t \in AnnotationTerms : utype = t /\ ustr = Annotation(t)
       \/ utype = TObject /\ ustr \in OtherAnnotations

ParseTypeCall ==
    /\ pc = "parse_type"
    /\ uparsed' = parse_type(ustr)
    /\ pc' = "returned"
    /\ UNCHANGED <<doc, custom_types, fields, parsed_data, idx, error, result,
                   uval, utype, upath, udata, ures, ustr>>

SpecParseType == InitParseType /\ [][ParseTypeCall]_vars

(***************************************************************************)
(* Pass one of parse_tacl_content on the lines of a document.  A line is   *)
(* kept as its indentation (the number of leading spaces) and its stripped *)
(* text; a blank line has no text.                                         *)
(***************************************************************************)
Line(indent, text) == [indent |-> indent, text |-> text]

\* IsSkipped with comment lines read like any other line
IsSkippedBlankOnly(line) ==
    line.text = <<>>

\* not line.strip() or line.strip().startswith("#")
IsSkipped(line) ==
    line.text = <<>> \/ StartsWith(line.text, "#")

\* line.startswith("  ")
StartsIndented(line) == line.indent >= 2

\* s.endswith(("|", ">", "|-", ">-", "|+", ">+"))
EndsWithMarker(s) ==
    \/ EndsWith(s, "|") \/ EndsWith(s, ">")
    \/ /\ Len(s) >= 2
       /\ s[Len(s) - 1] \in {"|", ">"}
       /\ s[Len(s)] \in {"-", "+"}

\* the result of parsing a block: its value and the line to go on with
BlockOk(value, line) == [ok |-> TRUE, val |-> value, line |-> line, err |-> NoErr]

BlockFail(e) == [ok |-> FALSE, val |-> VNull, line |-> 0, err |-> e]

\* raise ParseError(f"... on line {line}: {yaml_error}")
YamlErr(tag, line) == [ParseErr(tag, <<>>) EXCEPT !.line = line]

\* base_indent = None
NoIndent == 0 - 1

(***************************************************************************)
(* TACLParser.parse_multiline_block: the header line as it stands when no  *)
(* content follows, else the indicator after the last colon and the lines  *)
(* up to the first one indented less than the first content line.          *)
(***************************************************************************)
RECURSIVE FirstContent(_, _)
FirstContent(lines, content_line_index) ==
    IF content_line_index > Len(lines) THEN 0
    ELSE IF lines[content_line_index].text # <<>> THEN content_line_index
    ELSE FirstContent(lines, content_line_index + 1)

RECURSIVE BlockEnd(_, _, _)
BlockEnd(lines, current_line, base_indent) ==
    IF current_line > Len(lines) THEN current_line - 1
    ELSE IF lines[current_line].text = <<>> \/ lines[current_line].indent >= base_indent
    THEN BlockEnd(lines, current_line + 1, base_indent)
    ELSE current_line - 1

parse_multiline_block(lines, start_line) ==
    LET first_line == lines[start_line].text
        parts == Split(first_line, ":")
        Whole == [whole |-> TRUE, first_line |-> first_line, indicator |-> <<>>,
                  content |-> <<>>, base_indent |-> 0, end |-> start_line]
        Collect(content_line_index, end) ==
            [whole |-> FALSE, first_line |-> first_line,
             indicator |-> Strip(parts[Len(parts)]),
             content |-> SubSeq(lines, start_line + 1, end),
             base_indent |-> lines[content_line_index].indent, end |-> end]
        From(content_line_index) ==
            IF content_line_index = 0 THEN Whole
            ELSE Collect(content_line_index,
                         BlockEnd(lines, start_line + 1, lines[content_line_index].indent))
    IN  IF ~EndsWithMarker(first_line) THEN Whole
        ELSE From(FirstContent(lines, start_line + 1))

(***************************************************************************)
(* The value-literal adapter (yaml.safe_load) on the text that             *)
(* parse_multiline_block returns.  "&" opens an anchor, whose name is      *)
(* letters, digits, "-" and "_" and must be followed by a blank or a flow  *)
(* indicator; a block scalar is the text of its content lines.             *)
(***************************************************************************)
RECURSIVE AnchorEnd(_, _)
AnchorEnd(s, j) ==
    IF j < Len(s) /\ (IsIdChar(s[j + 1]) \/ s[j + 1] = "-") THEN AnchorEnd(s, j + 1) ELSE j

BadAnchor(s) ==
    /\ StartsWith(s, "&")
    /\ LET Bad(j) ==
               \/ j = 1
               \/ j < Len(s) /\ s[j + 1] \notin {" ", "?", ":", ",", "]", "}", "%", "@"}
       IN  Bad(AnchorEnd(s, 1))

\* the text of one content line, below the indentation of the block
ContentText(line, base_indent) ==
    IF line.text = <<>> THEN <<>>
    ELSE [i \in 1..(line.indent - base_indent) |-> " "] \o line.text

RECURSIVE TrailingBlank(_)
TrailingBlank(content) ==
    IF content # <<>> /\ content[Len(content)].text = <<>>
    THEN 1 + TrailingBlank(SubSeq(content, 1, Len(content) - 1))
    ELSE 0

\* a block scalar: "|" keeps the line breaks, ">" folds them into spaces;
\* "-" drops the final line break, "+" keeps every trailing one
BlockScalar(indicator, content, base_indent) ==
    LET blank == TrailingBlank(content)
        body == SubSeq(content, 1, Len(content) - blank)
        sep == IF Head(indicator) = "|" THEN <<"\n">> ELSE <<" ">>
        text == JoinWith([i \in 1..Len(body) |-> ContentText(body[i], base_indent)], sep)
        breaks == IF EndsWith(indicator, "-") \/ body = <<>> THEN 0
                  ELSE IF EndsWith(indicator, "+") THEN 1 + blank
                  ELSE 1
    IN  VStr(text \o [i \in 1..breaks |-> "\n"])

safe_load_block(yaml_block) ==
    LET parts == Split(yaml_block.first_line, ":")
        key == IF yaml_block.whole THEN Head(parts) ELSE <<>>
        node == IF yaml_block.whole THEN Strip(parts[Len(parts)]) ELSE yaml_block.indicator
    IN  IF BadAnchor(node) THEN [ok |-> FALSE, val |-> VNull]
        ELSE IF ~yaml_block.whole
        THEN [ok |-> TRUE,
              val |-> BlockScalar(node, yaml_block.content, yaml_block.base_indent)]
        ELSE IF EndsWithMarker(node)
        THEN [ok |-> TRUE, val |-> VMap(<<VStr(key)>>, <<VStr(<<>>)>>)]
        ELSE [ok |-> TRUE, val |-> safe_load(yaml_block.first_line)]

(***************************************************************************)
(* TACLParser._parse_multiline_array: the stripped lines up to the one     *)
(* that holds "]", each parsed as one item.                                *)
(***************************************************************************)
RECURSIVE ArrayLines(_, _, _)
ArrayLines(lines, current_line, array_content_lines) ==
    IF current_line > Len(lines)
    THEN [content |-> array_content_lines, line |-> current_line]
    ELSE LET stripped == lines[current_line].text
             before_bracket == Strip(SubSeq(stripped, 1, FirstIndex(stripped, "]") - 1))
         IN  IF IsSkipped(lines[current_line])
             THEN ArrayLines(lines, current_line + 1, array_content_lines)
             ELSE IF HasChar(stripped, "]")
             THEN [content |-> IF before_bracket # <<>>
                               THEN Append(array_content_lines, before_bracket)
                               ELSE array_content_lines,
                   line |-> current_line]
             ELSE ArrayLines(lines, current_line + 1, Append(array_content_lines, stripped))

ArrayItem(text) ==
    LET Item(line) == IF StartsWith(line, "&") THEN VStr(line) ELSE safe_load(line)
    IN  Item(IF EndsWith(text, ",") THEN Strip(SubSeq(text, 1, Len(text) - 1)) ELSE text)

parse_multiline_array(lines, start_index) ==
    LET Items(collected) ==
            BlockOk(VList([i \in 1..Len(collected.content) |->
                               ArrayItem(collected.content[i])]),
                    collected.line + 1)
    IN  Items(ArrayLines(lines, start_index, <<>>))

(***************************************************************************)
(* TACLParser.parse_object_block and TACLParser.parse_yaml_list.  One turn *)
(* of the loop of either parser ends the block (done), raises (fail),      *)
(* goes on at a later line (next) or first parses the block that follows   *)
(* an empty value and then goes on where that block ended (nested).        *)
(***************************************************************************)
Turn(kind, line, base_indent, collected, key, err) ==
    [kind |-> kind, line |-> line, base |-> base_indent, result |-> collected,
     key |-> key, err |-> err]

\* s.split(c, 1)[0] and s.split(c, 1)[1]
Before(s, c) == SubSeq(s, 1, FirstIndex(s, c) - 1)

After(s, c) == SubSeq(s, FirstIndex(s, c) + 1, Len(s))

\* one turn of the loop of parse_object_block
ObjectTurn(lines, current_line, base_indent, result_object) ==
    LET Go(line, base, collected) == Turn("next", line, base, collected, <<>>, NoErr)
        Array(field_name, base, r) ==
            Go(r.line, base, MapSet(result_object, field_name, r.val))
        Stored(field_name, field_value_str, base) ==
            IF field_value_str = <<>>
            THEN Turn("nested", current_line + 1, base, result_object, field_name, NoErr)
            ELSE IF field_value_str = <<"[">>
            THEN Array(field_name, base, parse_multiline_array(lines, current_line + 1))
            ELSE Go(current_line + 1, base,
                    MapSet(result_object, field_name, InlineValue(field_value_str)))
        TypeAndValue(field_name, field_type, field_value_str, base) ==
            IF ~field_type.ok
            THEN Turn("fail", current_line, base, result_object, <<>>, field_type.err)
            ELSE Stored(field_name, field_value_str, base)
        Typed(field_name, type_and_value, base) ==
            IF ~HasChar(type_and_value, ":") THEN Go(current_line + 1, base, result_object)
            ELSE TypeAndValue(field_name, parse_type(Strip(Before(type_and_value, ":"))),
                              Strip(After(type_and_value, ":")), base)
        Entry(line, base) ==
            IF line.indent < base
            THEN Turn("done", current_line, base, result_object, <<>>, NoErr)
            ELSE IF HasChar(line.text, ";") /\ HasChar(line.text, ":")
            THEN Typed(Strip(Before(line.text, ";")), Strip(After(line.text, ";")), base)
            ELSE IF HasChar(line.text, ":")
            THEN Stored(Strip(Before(line.text, ":")), Strip(After(line.text, ":")), base)
            ELSE Go(current_line + 1, base, result_object)
        At(line) ==
            IF IsSkipped(line) THEN Go(current_line + 1, base_indent, result_object)
            ELSE IF base_indent = NoIndent /\ ~StartsIndented(line)
            THEN Turn("done", current_line, base_indent, result_object, <<>>, NoErr)
            ELSE Entry(line, IF base_indent = NoIndent THEN line.indent ELSE base_indent)
    IN  IF current_line > Len(lines)
        THEN Turn("done", current_line, base_indent, result_object, <<>>, NoErr)
        ELSE At(lines[current_line])

\* one turn of the loop of parse_yaml_list
ListTurn(lines, current_line, base_indent, result_list) ==
    LET Go(line, base, collected) == Turn("next", line, base, collected, <<>>, NoErr)
        Loaded(yaml_block, item_value, base) ==
            IF item_value.ok
            THEN Go(current_line + (yaml_block.end - 1) + 1, base,
                    Append(result_list, item_value.val))
            ELSE Turn("fail", current_line, base, result_list, <<>>,
                      YamlErr("Invalid value in list on line", current_line))
        Multiline(yaml_block, base) == Loaded(yaml_block, safe_load_block(yaml_block), base)
        Temp(item_value_str) ==
            <<Line(0, <<"t","e","m","p",":"," ">> \o item_value_str)>>
                \o SubSeq(lines, current_line + 1, Len(lines))
        Item(item_value_str, base) ==
            IF item_value_str = <<>>
            THEN Turn("nested", current_line + 1, base, result_list, <<>>, NoErr)
            ELSE IF StartsWith(item_value_str, "&")
            THEN Go(current_line + 1, base, Append(result_list, VStr(item_value_str)))
            ELSE IF EndsWithMarker(item_value_str)
            THEN Multiline(parse_multiline_block(Temp(item_value_str), 1), base)
            ELSE Go(current_line + 1, base, Append(result_list, safe_load(item_value_str)))
        Entry(line, base) ==
            IF line.indent < base
            THEN Turn("done", current_line, base, result_list, <<>>, NoErr)
            ELSE IF StartsWith(line.text, "-") THEN Item(Strip(Tail(line.text)), base)
            ELSE Go(current_line + 1, base, result_list)
        At(line) ==
            IF IsSkipped(line) THEN Go(current_line + 1, base_indent, result_list)
            ELSE IF base_indent = NoIndent /\ ~StartsWith(line.text, "-")
            THEN Turn("done", current_line, base_indent, result_list, <<>>, NoErr)
            ELSE Entry(line, IF base_indent = NoIndent THEN line.indent ELSE base_indent)
    IN  IF current_line > Len(lines)
        THEN Turn("done", current_line, base_indent, result_list, <<>>, NoErr)
        ELSE At(lines[current_line])

RECURSIVE BlockLoop(_, _, _, _, _)

parse_object_block(lines, start_line) ==
    BlockLoop("object", lines, start_line, NoIndent, EmptyMap)

parse_yaml_list(lines, start_line) ==
    BlockLoop("list", lines, start_line, NoIndent, <<>>)

\* an empty value: a list follows when the next line starts with "-", else
\* an object block
NestedBlock(lines, current_line) ==
    IF current_line <= Len(lines) /\ StartsWith(lines[current_line].text, "-")
    THEN parse_yaml_list(lines, current_line)
    ELSE parse_object_block(lines, current_line)

\* the loop of parse_object_block (kind "object") or parse_yaml_list ("list")
BlockLoop(kind, lines, current_line, base_indent, collected) ==
    LET Add(turn, value) ==
            IF kind = "list" THEN Append(turn.result, value)
            ELSE MapSet(turn.result, turn.key, value)
        Resume(turn, r) ==
            IF ~r.ok THEN r
            ELSE BlockLoop(kind, lines, r.line, turn.base,
                           IF turn.kind = "nested" THEN Add(turn, r.val) ELSE turn.result)
        Go(turn) ==
            IF turn.kind = "done"
            THEN BlockOk(IF kind = "list" THEN VList(turn.result) ELSE turn.result, turn.line)
            ELSE IF turn.kind = "fail" THEN BlockFail(turn.err)
            ELSE Resume(turn, IF turn.kind = "nested" THEN NestedBlock(lines, turn.line)
                              ELSE BlockOk(VNull, turn.line))
    IN  Go(IF kind = "list" THEN ListTurn(lines, current_line, base_indent, collected)
           ELSE ObjectTurn(lines, current_line, base_indent, collected))

(***************************************************************************)
(* A top-level line of pass one.                                           *)
(***************************************************************************)
\* parser.type_definition_pattern.match(line.strip()):
\*     ^@type\s+([a-zA-Z_][a-zA-Z0-9_]*):\s*$
TypeDefinitionMatch(text) ==
    LET spaced == SubSeq(text, 6, Len(text) - 1)
    IN  [ok |-> /\ StartsWithStr(text, <<"@","t","y","p","e"," ">>)
                /\ EndsWith(text, ":")
                /\ ~EndsWith(spaced, " ")
                /\ IsIdentifier(Strip(spaced)),
         type_name |-> Strip(spaced)]

\* parser.type_pattern.match(line.strip()):  ^([^;]+);\s*([^:]+):\s*(.*)$
TypePatternMatch(text) ==
    LET semi == IF HasChar(text, ";") THEN FirstIndex(text, ";") ELSE 0
        rest == SubSeq(text, semi + 1, Len(text))
        colon == IF HasChar(rest, ":") THEN FirstIndex(rest, ":") ELSE 0
    IN  [ok |-> semi >= 2 /\ colon >= 2,
         key |-> Strip(SubSeq(text, 1, semi - 1)),
         type_str |-> Strip(SubSeq(rest, 1, colon - 1)),
         value_str |-> Strip(SubSeq(rest, colon + 1, Len(rest)))]

\* HeaderValue with pass one going on at the last line of a block scalar
\* instead of the line after it
HeaderValueStays(lines, line_index, value_str) ==
    LET Loaded(yaml_block, value) ==
            IF value.ok THEN BlockOk(value.val, yaml_block.end)
            ELSE BlockFail(YamlErr("Invalid YAML multiline block on line", line_index))
        Multiline(yaml_block) == Loaded(yaml_block, safe_load_block(yaml_block))
    IN  IF value_str = <<>>
        THEN IF line_index + 1 <= Len(lines)
             THEN NestedBlock(lines, line_index + 1)
             ELSE BlockOk(EmptyMap, line_index + 1)
        ELSE IF EndsWithMarker(value_str)
        THEN Multiline(parse_multiline_block(lines, line_index))
        ELSE IF value_str = <<"[">> THEN parse_multiline_array(lines, line_index + 1)
        ELSE BlockOk(InlineValue(value_str), line_index + 1)

\* the value of the field whose header stands on line line_index, and the
\* line pass one goes on with
HeaderValue(lines, line_index, value_str) ==
    LET Loaded(yaml_block, value) ==
            IF value.ok THEN BlockOk(value.val, yaml_block.end + 1)
            ELSE BlockFail(YamlErr("Invalid YAML multiline block on line", line_index))
        Multiline(yaml_block) == Loaded(yaml_block, safe_load_block(yaml_block))
    IN  IF value_str = <<>>
        THEN IF line_index + 1 <= Len(lines)
             THEN NestedBlock(lines, line_index + 1)
             ELSE BlockOk(EmptyMap, line_index + 1)
        ELSE IF EndsWithMarker(value_str)
        THEN Multiline(parse_multiline_block(lines, line_index))
        ELSE IF value_str = <<"[">> THEN parse_multiline_array(lines, line_index + 1)
        ELSE BlockOk(InlineValue(value_str), line_index + 1)

\* the lines a document is written with
HeaderLines ==
    { Line(0, <<"a",";"," ","o","b","j","e","c","t",":">>),
      Line(0, <<"a",";"," ","s","t","r","i","n","g",":"," ","&","b","|">>),
      Line(0, <<"s",";"," ","s","t","r","i","n","g",":"," ","|">>) }

BodyLines ==
    { Line(0, <<>>),
      Line(0, <<"#"," ","c">>),
      Line(2, <<"-"," ","1">>),
      Line(4, <<"-"," ","1">>),
      Line(4, <<"-">>),
      Line(2, <<"x",":">>),
      Line(4, <<"x",":">>),
      Line(2, <<"y",":"," ","2">>),
      Line(4, <<"y",":"," ","2">>),
      Line(2, <<"x",":"," ","&","b","|">>),
      Line(2, <<"-"," ","&","b","|">>),
      Line(0, <<"b",";"," ","i","n","t",":"," ","3">>) }

InitLines ==
    /\ \E header \in HeaderLines : \E n \in 0..MaxLines :
           \E body \in [1..n -> BodyLines] : doc = <<header>> \o body
    /\ custom_types = <<>>
    /\ fields = <<>>
    /\ parsed_data = EmptyMap
    /\ idx = 1
    /\ pc = "pass1"
    /\ error = NoErr
    /\ result = NoResult
    /\ uval = VNull /\ utype = TObject /\ upath = <<>> /\ udata = EmptyMap
    /\ ures = UnitIdle
    /\ ustr = <<>> /\ uparsed = NoType

\* a blank line or a comment
SkipBlankLine ==
    /\ pc = "pass1" /\ idx <= Len(doc)
    /\ IsSkipped(doc[idx])
    /\ idx' = idx + 1
    /\ UNCHANGED <<doc, custom_types, fields, parsed_data, pc, error, result>>
    /\ UnitUnchanged

\* a line that is no field header
SkipPlainLine ==
    /\ pc = "pass1" /\ idx <= Len(doc)
    /\ ~IsSkipped(doc[idx])
    /\ ~TypeDefinitionMatch(doc[idx].text).ok
    /\ ~TypePatternMatch(doc[idx].text).ok
    /\ idx' = idx + 1
    /\ UNCHANGED <<doc, custom_types, fields, parsed_data, pc, error, result>>
    /\ UnitUnchanged

\* a field header: its value, then its type, make a TACLField
ReadField ==
    /\ pc = "pass1" /\ idx <= Len(doc)
    /\ ~IsSkipped(doc[idx])
    /\ LET Add(match, value, type_annotation) ==
               /\ value.ok /\ type_annotation.ok
               /\ fields' = Append(fields, TACLField(match.key, type_annotation.type,
                                                     value.val, idx))
               /\ idx' = value.line
           Read(match) ==
               /\ match.ok
               /\ Add(match, HeaderValue(doc, idx, match.value_str),
                      parse_type(match.type_str))
       IN  Read(TypePatternMatch(doc[idx].text))
    /\ UNCHANGED <<doc, custom_types, parsed_data, pc, error, result>>
    /\ UnitUnchanged

\* a field header whose value or type is rejected
ReadFieldFails ==
    /\ pc = "pass1" /\ idx <= Len(doc)
    /\ ~IsSkipped(doc[idx])
    /\ LET Raise(value, type_annotation) ==
               /\ ~value.ok \/ ~type_annotation.ok
               /\ error' = IF ~value.ok THEN value.err ELSE type_annotation.err
           Read(match) ==
               /\ match.ok
               /\ Raise(HeaderValue(doc, idx, match.value_str), parse_type(match.type_str))
       IN  Read(TypePatternMatch(doc[idx].text))
    /\ pc' = "failed"
    /\ UNCHANGED <<doc, custom_types, fields, parsed_data, idx, result>>
    /\ UnitUnchanged

NextLines ==
    \/ SkipBlankLine
    \/ SkipPlainLine
    \/ ReadField
    \/ ReadFieldFails
    \/ BuildTable
    \/ ResolveFails
    \/ ValidateFails
    \/ StoreField
    \/ Return

SpecLines == InitLines /\ [][NextLines]_vars

(***************************************************************************)
(* Documents of top-level fields with inline values (specification         *)
(* SpecInline): the lines of tests/test_simple.py and a few others.        *)
(***************************************************************************)
\* name; string: "test"
NameLine ==
    Line(0, <<"n","a","m","e",";"," ","s","t","r","i","n","g",":"," ","\"","t","e","s","t","\"">>)

\* port; int: 8080
PortLine == Line(0, <<"p","o","r","t",";"," ","i","n","t",":"," ","8","0","8","0">>)

\* debug; bool: true
DebugLine ==
    Line(0, <<"d","e","b","u","g",";"," ","b","o","o","l",":"," ","t","r","u","e">>)

\* # Simple test
CommentLine == Line(0, <<"#"," ","S","i","m","p","l","e"," ","t","e","s","t">>)

InlineLines ==
    { NameLine, PortLine, DebugLine, CommentLine,
      Line(0, <<>>),
      Line(0, <<"#"," ","c",";"," ","i","n","t",":"," ","2">>),
      Line(0, <<"p","o","r","t",";"," ","i","n","t",":"," ","\"","x","\"">>),
      Line(0, <<"h","e","l","l","o">>),
      Line(0, <<"q",";"," ","l","i","s","t","[","]",":"," ","1">>),
      Line(0, <<"r",";"," ","s","t","r","i","n","g",":"," ","&","z">>) }

InitInline ==
    /\ \E first \in {<<>>, <<Line(0, <<>>), CommentLine>>} : \E n \in 1..MaxLines :
           \E body \in [1..n -> InlineLines] : doc = first \o body
    /\ custom_types = <<>>
    /\ fields = <<>>
    /\ parsed_data = EmptyMap
    /\ idx = 1
    /\ pc = "pass1"
    /\ error = NoErr
    /\ result = NoResult
    /\ uval = VNull /\ utype = TObject /\ upath = <<>> /\ udata = EmptyMap
    /\ ures = UnitIdle
    /\ ustr = <<>> /\ uparsed = NoType

SpecInline == InitInline /\ [][NextLines]_vars

(***************************************************************************)
(* api.loads and api.validate_string around parse_tacl_content             *)
(* (specification SpecApi).  ures holds what loads returns or raises, uval *)
(* what validate_string returns.                                           *)
(***************************************************************************)
\* list[list[...list[int]...]] with n lists
RECURSIVE Deep(_)
Deep(n) ==
    IF n = 0 THEN <<"i","n","t">>
    ELSE <<"l","i","s","t","[">> \o Deep(n - 1) \o <<"]">>

\* x; list[list[...]]: 1   nested one deeper than the stack has room for
DeepLine == Line(0, <<"x",";"," ">> \o Deep(MaxDepth + 1) \o <<":"," ","1">>)

InitApi ==
    /\ \E n \in 1..MaxLines :
           \E body \in [1..n -> InlineLines \cup {DeepLine}] : doc = body
    /\ custom_types = <<>>
    /\ fields = <<>>
    /\ parsed_data = EmptyMap
    /\ idx = 1
    /\ pc = "pass1"
    /\ error = NoErr
    /\ result = NoResult
    /\ uval = VNull /\ utype = TObject /\ upath = <<>> /\ udata = EmptyMap
    /\ ures = UnitIdle
    /\ ustr = <<>> /\ uparsed = NoType

\* except (ValidationError, ParseError, TACLReferenceError)
CoreErrors == {"ValidationError", "ParseError", "TACLReferenceError"}

\* raise TACLLoadError(f"Failed to parse TACL content: {error}") from error
LoadError(err) ==
    [err EXCEPT !.cls = "TACLLoadError"]

\* LoadsWraps with the exception let through as it is
LoadsLetsThrough ==
    /\ pc = "failed" /\ error.cls \notin CoreErrors
    /\ ures' = [ok |-> FALSE, val |-> VNull, err |-> error]
    /\ pc' = "loads_raised"
    /\ UNCHANGED <<doc, custom_types, fields, parsed_data, idx, error, result>>
    /\ UNCHANGED <<uval, utype, upath, udata, ustr, uparsed>>

\* return parse_tacl_content(content)
LoadsReturns ==
    /\ pc = "done"
    /\ ures' = [ok |-> TRUE, val |-> result, err |-> NoErr]
    /\ pc' = "loads_returned"
    /\ UNCHANGED <<doc, custom_types, fields, parsed_data, idx, error, result>>
    /\ UNCHANGED <<uval, utype, upath, udata, ustr, uparsed>>

\* except (ValidationError, ParseError, TACLReferenceError): raise
LoadsReraises ==
    /\ pc = "failed" /\ error.cls \in CoreErrors
    /\ ures' = [ok |-> FALSE, val |-> VNull, err |-> error]
    /\ pc' = "loads_raised"
    /\ UNCHANGED <<doc, custom_types, fields, parsed_data, idx, error, result>>
    /\ UNCHANGED <<uval, utype, upath, udata, ustr, uparsed>>

\* except Exception as error: raise TACLLoadError(...)
LoadsWraps ==
    /\ pc = "failed" /\ error.cls \notin CoreErrors
    /\ ures' = [ok |-> FALSE, val |-> VNull, err |-> LoadError(error)]
    /\ pc' = "loads_raised"
    /\ UNCHANGED <<doc, custom_types, fields, parsed_data, idx, error, result>>
    /\ UNCHANGED <<uval, utype, upath, udata, ustr, uparsed>>

\* validate_string: loads(content) returned; return True
ValidateStringReturns ==
    /\ pc = "loads_returned"
    /\ uval' = VBool(TRUE)
    /\ pc' = "validate_returned"
    /\ UNCHANGED <<doc, custom_types, fields, parsed_data, idx, error, result>>
    /\ UNCHANGED <<utype, upath, udata, ures, ustr, uparsed>>

\* validate_string: loads(content) raised; the exception goes on to the caller
ValidateStringRaises ==
    /\ pc = "loads_raised"
    /\ pc' = "validate_raised"
    /\ UNCHANGED <<doc, custom_types, fields, parsed_data, idx, error, result>>
    /\ UnitUnchanged

NextApi ==
    \/ NextLines
    \/ LoadsReturns
    \/ LoadsReraises
    \/ LoadsWraps
    \/ ValidateStringReturns
    \/ ValidateStringRaises

SpecApi == InitApi /\ [][NextApi]_vars

(***************************************************************************)
(* cli.compile_to_yaml, compile_to_json and compile_to_toml around         *)
(* parse_tacl_content (specification SpecCli).  ures holds the mapping     *)
(* handed to the exporter, whose rendering is outside this model, or the   *)
(* exception that reaches the caller.                                      *)
(***************************************************************************)
\* raise JSONExportError(...) / TOMLExportError(f"TACL compilation failed: {error}")
ExportError(cls, err) ==
    [err EXCEPT !.cls = cls]

\* the call ends at the label to, with outcome r for the caller
CompileEnds(to, r) ==
    /\ ures' = r
    /\ pc' = to
    /\ UNCHANGED <<doc, custom_types, fields, parsed_data, idx, error, result>>
    /\ UNCHANGED <<uval, utype, upath, udata, ustr, uparsed>>

\* compile_to_yaml: yaml_dump(parse_tacl_content(content), ...)
CompileToYamlReturns ==
    /\ pc = "done"
    /\ CompileEnds("yaml_returned", [ok |-> TRUE, val |-> result, err |-> NoErr])

\* compile_to_yaml: only a YAMLError of yaml_dump is caught
CompileToYamlRaises ==
    /\ pc = "failed"
    /\ CompileEnds("yaml_raised", [ok |-> FALSE, val |-> VNull, err |-> error])

\* compile_tacl_to_json: exporter.export_to_json(parsed_data, indent)
CompileToJsonReturns ==
    /\ pc = "done"
    /\ CompileEnds("json_returned", [ok |-> TRUE, val |-> result, err |-> NoErr])

\* compile_tacl_to_json: except Exception as error: raise JSONExportError(...)
CompileToJsonRaises ==
    /\ pc = "failed"
    /\ CompileEnds("json_raised",
                   [ok |-> FALSE, val |-> VNull, err |-> ExportError("JSONExportError", error)])

\* compile_tacl_to_toml: exporter.export(parsed_data)
CompileToTomlReturns ==
    /\ pc = "done"
    /\ CompileEnds("toml_returned", [ok |-> TRUE, val |-> result, err |-> NoErr])

\* compile_tacl_to_toml: except Exception as error: raise TOMLExportError(...)
CompileToTomlRaises ==
    /\ pc = "failed"
    /\ CompileEnds("toml_raised",
                   [ok |-> FALSE, val |-> VNull, err |-> ExportError("TOMLExportError", error)])

NextCli ==
    \/ NextLines
    \/ CompileToYamlReturns
    \/ CompileToYamlRaises
    \/ CompileToJsonReturns
    \/ CompileToJsonRaises
    \/ CompileToTomlReturns
    \/ CompileToTomlRaises

SpecCli == InitApi /\ [][NextCli]_vars

(***************************************************************************)
(* Two calls of validate_value on the same value, type term and registry   *)
(* (specification SpecRevalidate).  ures holds the outcome of the first    *)
(* call, error what the second call raises.                                *)
(***************************************************************************)
\* ValidateAgain by a validator that empties the registry it was given
ValidateAgainForgets ==
    /\ pc = "returned"
    /\ LET Raised2(v) == IF v.ok THEN NoErr ELSE v.err
       IN  error' = Raised2(validate_value(uval, utype, UnitPath, <<>>))
    /\ custom_types' = <<>>
    /\ pc' = "revalidated"
    /\ UNCHANGED <<doc, fields, parsed_data, idx, result>>
    /\ UnitUnchanged

\* parser.validate_value(value, tacl_type, field_path) once more: the
\* function assigns to its locals only
ValidateAgain ==
    /\ pc = "returned"
    /\ LET Raised2(v) == IF v.ok THEN NoErr ELSE v.err
       IN  error' = Raised2(validate_value(uval, utype, UnitPath, custom_types))
    /\ pc' = "revalidated"
    /\ UNCHANGED <<doc, custom_types, fields, parsed_data, idx, result>>
    /\ UnitUnchanged

NextRevalidate ==
    \/ ValidateCall
    \/ ValidateAgain

SpecRevalidate == InitValidate /\ [][NextRevalidate]_vars

(***************************************************************************)
(* Documents whose fields keep their keys in whatever order they are       *)
(* written (specification SpecOrder).                                      *)
(***************************************************************************)
\* the field lines a document is made of, each with its key
OrderDeclarations ==
    { [key |-> <<"t">>, type_str |-> Annotation(TString),
       value_str |-> <<"\"","&","b","\"">>, block |-> VNull],
      [key |-> <<"b">>, type_str |-> Annotation(TObject), value_str |-> <<>>,
       block |-> BlockXY],
      [key |-> <<"b">>, type_str |-> Annotation(TObject), value_str |-> <<"&","c">>,
       block |-> VNull],
      [key |-> <<"c">>, type_str |-> Annotation(TString), value_str |-> <<"v">>,
       block |-> VNull],
      [key |-> <<"c">>, type_str |-> Annotation(TInt), value_str |-> <<"v">>,
       block |-> VNull],
      [key |-> <<"c">>, type_str |-> <<"l","i","s","t","[","]">>, value_str |-> <<"1">>,
       block |-> VNull] }

\* the document made of an @type block and one field line per declaration
KeyedDocument(type_block, ds) ==
    <<TypeDefItem(type_block, 1)>> \o
    [i \in DOMAIN ds |-> FieldItem(ds[i].key, ds[i].type_str, ds[i].value_str,
                                   ds[i].block, LineOf(ds, i))]

InitOrder ==
    /\ \E type_block \in TypeBlocks : \E n \in 1..MaxFields :
           \E ds \in [1..n -> OrderDeclarations] :
               /\ \A i, j \in 1..n : ds[i].key = ds[j].key => i = j
               /\ doc = KeyedDocument(type_block, ds)
    /\ custom_types = <<>>
    /\ fields = <<>>
    /\ parsed_data = EmptyMap
    /\ idx = 1
    /\ pc = "pass1"
    /\ error = NoErr
    /\ result = NoResult
    /\ uval = VNull /\ utype = TObject /\ upath = <<>> /\ udata = EmptyMap
    /\ ures = UnitIdle
    /\ ustr = <<>> /\ uparsed = NoType

SpecOrder == InitOrder /\ [][Next]_vars

(***************************************************************************)
(* Pass one over raw lines with @type blocks: the loop of lines 1086-1125  *)
(* reads the lines after an "@type Name:" header.  A blank line ends the   *)
(* block and is consumed, a comment is passed over, an indented line with  *)
(* a ";" declares a field, and any other line ends the block and is read   *)
(* again as a top-level line.                                              *)
(***************************************************************************)
\* type_fields[field_name] = field_type
PutField(type_fields, field_name, field_type) ==
    LET Found == {k \in 1..Len(type_fields.fnames) : type_fields.fnames[k] = field_name}
    IN  IF Found = {}
        THEN [fnames |-> Append(type_fields.fnames, field_name),
              ftypes |-> Append(type_fields.ftypes, field_type)]
        ELSE [type_fields EXCEPT !.ftypes =
                  [k \in DOMAIN type_fields.ftypes |->
                       IF k \in Found THEN field_type ELSE type_fields.ftypes[k]]]

TypeBlockOk(type_fields, line) ==
    [ok |-> TRUE, type_fields |-> type_fields, line |-> line, err |-> NoErr]

RECURSIVE TypeDefLoop(_, _, _)
TypeDefLoop(lines, line_index, type_fields) ==
    LET Declared(field_name, field_type) ==
            IF ~field_type.ok
            THEN [ok |-> FALSE, type_fields |-> type_fields, line |-> line_index,
                  err |-> field_type.err]
            ELSE TypeDefLoop(lines, line_index + 1,
                             PutField(type_fields, field_name, field_type.type))
        At(field_line) ==
            IF field_line.text = <<>> THEN TypeBlockOk(type_fields, line_index + 1)
            ELSE IF StartsWith(field_line.text, "#")
            THEN TypeDefLoop(lines, line_index + 1, type_fields)
            ELSE IF ~StartsIndented(field_line) THEN TypeBlockOk(type_fields, line_index)
            ELSE IF HasChar(field_line.text, ";")
            THEN Declared(Strip(Before(field_line.text, ";")),
                          parse_type(Strip(After(field_line.text, ";"))))
            ELSE TypeDefLoop(lines, line_index + 1, type_fields)
    IN  IF line_index > Len(lines) THEN TypeBlockOk(type_fields, line_index)
        ELSE At(lines[line_index])

\* the @type block whose header stands on line line_index
TypeBlock(lines, line_index) ==
    TypeDefLoop(lines, line_index + 1, [fnames |-> <<>>, ftypes |-> <<>>])

\* an @type header: the block is read and its definition registered
ReadTypeDef ==
    /\ pc = "pass1" /\ idx <= Len(doc)
    /\ ~IsSkipped(doc[idx])
    /\ LET Register(match, block) ==
               /\ match.ok /\ block.ok
               /\ custom_types' =
                      Append(custom_types, TypeDef(match.type_name, block.type_fields.fnames,
                                                   block.type_fields.ftypes))
               /\ idx' = block.line
       IN  Register(TypeDefinitionMatch(doc[idx].text), TypeBlock(doc, idx))
    /\ UNCHANGED <<doc, fields, parsed_data, pc, error, result>>
    /\ UnitUnchanged

\* an @type block one of whose annotations parse_type rejects
ReadTypeDefFails ==
    /\ pc = "pass1" /\ idx <= Len(doc)
    /\ ~IsSkipped(doc[idx])
    /\ LET Raise(match, block) ==
               /\ match.ok /\ ~block.ok
               /\ error' = block.err
       IN  Raise(TypeDefinitionMatch(doc[idx].text), TypeBlock(doc, idx))
    /\ pc' = "failed"
    /\ UNCHANGED <<doc, custom_types, fields, parsed_data, idx, result>>
    /\ UnitUnchanged

\* the lines a document with every kind of block is written with
ScanLines ==
    { Line(0, <<"@","t","y","p","e"," ","P",":">>),
      Line(2, <<"x",";"," ","i","n","t">>),
      Line(2, <<"y",";"," ","l","i","s","t","[","]">>),
      Line(0, <<>>),
      Line(0, <<"#"," ","c">>),
      Line(0, <<"a",";"," ","o","b","j","e","c","t",":">>),
      Line(2, <<"x",":">>),
      Line(2, <<"-"," ","1">>),
      Line(0, <<"a",";"," ","s","t","r","i","n","g",":"," ","&","b">>),
      Line(0, <<"b",";"," ","s","t","r","i","n","g",":"," ","&","a">>),
      Line(0, <<"s",";"," ","s","t","r","i","n","g",":"," ","|">>),
      Line(0, <<"v",";"," ","l","i","s","t",":"," ","[">>),
      Line(0, <<"q",";"," ","l","i","s","t","[","]",":"," ","1">>) }

InitScan ==
    /\ \E n \in 1..MaxLines : \E body \in [1..n -> ScanLines] : doc = body
    /\ custom_types = <<>>
    /\ fields = <<>>
    /\ parsed_data = EmptyMap
    /\ idx = 1
    /\ pc = "pass1"
    /\ error = NoErr
    /\ result = NoResult
    /\ uval = VNull /\ utype = TObject /\ upath = <<>> /\ udata = EmptyMap
    /\ ures = UnitIdle
    /\ ustr = <<>> /\ uparsed = NoType

NextScan ==
    \/ SkipBlankLine
    \/ SkipPlainLine
    \/ ReadTypeDef
    \/ ReadTypeDefFails
    \/ ReadField
    \/ ReadFieldFails
    \/ BuildTable
    \/ ResolveFails
    \/ ValidateFails
    \/ StoreField
    \/ Return

\* the call has neither returned nor raised
Running == pc \in {"pass1", "pass2"}

\* the call moves: to another line or field, to pass two, or to its end
TakesStep ==
    /\ Running
    /\ idx' \in 1..(Len(doc) + 2)
    /\ pc' \in {"pass1", "pass2", "done", "failed"}
    /\ idx' # idx \/ pc' # pc

\* parse_tacl_content is one synchronous call on one thread and waits for
\* nothing: while it is running, the interpreter goes on executing it
SpecScan == InitScan /\ [][NextScan]_vars /\ WF_<<idx, pc>>(TakesStep)

(***************************************************************************)
(* Documents whose fields refer to the same target more than once          *)
(* (specification SpecShared): a block with lead and members, as in        *)
(* tests/test_new_features.py 80-113, a text with two embedded references, *)
(* and blocks that close a cycle.                                          *)
(***************************************************************************)
\* the block   l: &a / m: [&a, &b]
BlockTeam ==
    VMap(<<VStr(<<"l">>), VStr(<<"m">>)>>,
         <<VStr(<<"&","a">>), VList(<<VStr(<<"&","a">>), VStr(<<"&","b">>)>>)>>)

\* the block   x: &t.l
BlockBack == VMap(<<VStr(<<"x">>)>>, <<VStr(<<"&","t",".","l">>)>>)

SharedDeclarations ==
    { [key |-> <<"a">>, type_str |-> Annotation(TObject), value_str |-> <<>>,
       block |-> BlockX1],
      [key |-> <<"a">>, type_str |-> Annotation(TObject), value_str |-> <<>>,
       block |-> BlockBack],
      [key |-> <<"b">>, type_str |-> Annotation(TString), value_str |-> <<"v">>,
       block |-> VNull],
      [key |-> <<"b">>, type_str |-> Annotation(TObject), value_str |-> <<"&","b">>,
       block |-> VNull],
      [key |-> <<"t">>, type_str |-> Annotation(TObject), value_str |-> <<>>,
       block |-> BlockTeam],
      [key |-> <<"t">>, type_str |-> Annotation(TString),
       value_str |-> <<"\"","&","a"," ","&","a","\"">>, block |-> VNull],
      [key |-> <<"c">>, type_str |-> Annotation(TInt), value_str |-> <<"v">>,
       block |-> VNull],
      [key |-> <<"c">>, type_str |-> <<"l","i","s","t","[","]">>, value_str |-> <<"1">>,
       block |-> VNull] }

InitShared ==
    /\ \E type_block \in TypeBlocks : \E n \in 1..MaxFields :
           \E ds \in [1..n -> SharedDeclarations] :
               /\ \A i, j \in 1..n : ds[i].key = ds[j].key => i = j
               /\ doc = KeyedDocument(type_block, ds)
    /\ custom_types = <<>>
    /\ fields = <<>>
    /\ parsed_data = EmptyMap
    /\ idx = 1
    /\ pc = "pass1"
    /\ error = NoErr
    /\ result = NoResult
    /\ uval = VNull /\ utype = TObject /\ upath = <<>> /\ udata = EmptyMap
    /\ ures = UnitIdle
    /\ ustr = <<>> /\ uparsed = NoType

SpecShared == InitShared /\ [][Next]_vars

(***************************************************************************)
(* Documents with annotated lines inside an object block (specification    *)
(* SpecNested): each annotated line is written both at the top level and   *)
(* indented under a header.                                                *)
(***************************************************************************)
NestedLines ==
    { Line(0, <<"s",";"," ","d","i","c","t","[","s","t","r","i","n","g",","," ",
                "o","b","j","e","c","t","]",":">>),
      Line(2, <<"p",";"," ","s","t","r","i","n","g",":"," ","8","0","8","0">>),
      Line(2, <<"p",";"," ","i","n","t",":"," ","8","0","8","0">>),
      Line(0, <<"p",";"," ","s","t","r","i","n","g",":"," ","8","0","8","0">>),
      Line(2, <<"q",";"," ","l","i","s","t","[","]",":"," ","1">>),
      Line(2, <<"x",":"," ","1">>),
      Line(0, <<>>),
      Line(0, <<"r",";"," ","s","t","r","i","n","g",":"," ","&","z">>) }

InitNested ==
    /\ \E n \in 1..MaxLines : \E body \in [1..n -> NestedLines] : doc = body
    /\ custom_types = <<>>
    /\ fields = <<>>
    /\ parsed_data = EmptyMap
    /\ idx = 1
    /\ pc = "pass1"
    /\ error = NoErr
    /\ result = NoResult
    /\ uval = VNull /\ utype = TObject /\ upath = <<>> /\ udata = EmptyMap
    /\ ures = UnitIdle
    /\ ustr = <<>> /\ uparsed = NoType

SpecNested == InitNested /\ [][NextLines]_vars

(***************************************************************************)
(* Several calls of parse_tacl_content, one after the other (specification *)
(* SpecCalls).  Every call builds its own TACLParser and its own lists.    *)
(***************************************************************************)
\* a document without an @type block: one field line per declaration
PlainDocument(ds) ==
    [i \in DOMAIN ds |-> FieldItem(KeyNames[i], ds[i].type_str, ds[i].value_str, ds[i].block,
                                   LineOf(ds, i) - TypeBlockLines(PersonDef))]

\* the block   z: 1
BlockZ1 == VMap(<<VStr(<<"z">>)>>, <<VInt(1)>>)

\* the declarations the documents of a call are made of
CallDeclarations ==
    { [type_str |-> Annotation(TCustom(<<"P">>)), value_str |-> <<>>, block |-> BlockX1],
      [type_str |-> Annotation(TCustom(<<"P">>)), value_str |-> <<>>, block |-> BlockZ1],
      [type_str |-> Annotation(TObject), value_str |-> <<"&","a">>, block |-> VNull],
      [type_str |-> Annotation(TString), value_str |-> <<"\"","&","a","\"">>, block |-> VNull],
      [type_str |-> <<"l","i","s","t","[","]">>, value_str |-> <<"1">>, block |-> VNull] }

\* doc is a document of a call: with an @type block of P or without one
IsCallDocument(d) ==
    \E n \in 1..MaxFields : \E ds \in [1..n -> CallDeclarations] :
        \/ \E type_block \in TypeBlocks : d = Document(type_block, ds)
        \/ d = PlainDocument(ds)

InitCalls ==
    /\ IsCallDocument(doc)
    /\ custom_types = <<>>
    /\ fields = <<>>
    /\ parsed_data = EmptyMap
    /\ idx = 1
    /\ pc = "pass1"
    /\ error = NoErr
    /\ result = NoResult
    /\ uval = VNull /\ utype = TObject /\ upath = <<>> /\ udata = EmptyMap
    /\ ures = UnitIdle
    /\ ustr = <<>> /\ uparsed = NoType

\* ParseAgain with the registry of the call before kept
ParseAgainSharedRegistry ==
    /\ pc \in {"done", "failed"}
    /\ IsCallDocument(doc')
    /\ fields' = <<>>
    /\ parsed_data' = EmptyMap
    /\ idx' = 1
    /\ pc' = "pass1"
    /\ error' = NoErr
    /\ result' = NoResult
    /\ UNCHANGED custom_types
    /\ UnitUnchanged

\* the next call: parser = TACLParser(), fields = [], line_index = 0
ParseAgain ==
    /\ pc \in {"done", "failed"}
    /\ IsCallDocument(doc')
    /\ custom_types' = <<>>
    /\ fields' = <<>>
    /\ parsed_data' = EmptyMap
    /\ idx' = 1
    /\ pc' = "pass1"
    /\ error' = NoErr
    /\ result' = NoResult
    /\ UnitUnchanged

NextCalls ==
    \/ Next
    \/ ParseAgain

SpecCalls == InitCalls /\ [][NextCalls]_vars

(***************************************************************************)
(* Properties of parse_tacl_content (specification Spec).                  *)
(***************************************************************************)
Returned == pc = "done"

Raised == pc = "failed"

\* pass one raises ParseError only; pass two raises one of its two wrappers
RaisedInPassOne == Raised /\ error.cls = "ParseError"

RaisedInPassTwo == Raised /\ error.cls \in {"TACLReferenceError", "ValidationError"}

\* the field table as pass one leaves it
RawTable == TableOf(fields, EmptyMap)

IsWholeRef(value) == value.kind = "str" /\ StartsWith(value.s, "&")

FieldIndex(key) == CHOOSE i \in 1..Len(fields) : fields[i].key = key

IsFieldKey(key) == \E i \in 1..Len(fields) : fields[i].key = key

RECURSIVE StringLeaves(_)
StringLeaves(value) ==
    CASE value.kind = "str" -> {value.s}
      [] value.kind \in {"list", "map"} ->
            UNION {StringLeaves(value.items[i]) : i \in 1..Len(value.items)}
      [] OTHER -> {}

\* the whole-value references written in a value, at any depth
WholeRefsIn(value) == {Tail(s) : s \in {l \in StringLeaves(value) : StartsWith(l, "&")}}

\* the paths the target of a whole-value reference leads to next
RefStep(path) ==
    LET target == resolve_reference(path, RawTable)
    IN  IF target.ok THEN WholeRefsIn(target.val) ELSE {}

RECURSIVE RefReach(_, _)
RefReach(paths, n) ==
    IF n = 0 THEN paths
    ELSE RefReach(paths \cup UNION {RefStep(q) : q \in paths}, n - 1)

\* path lies on a cycle of whole-value references
OnRefCycle(path) == path \in RefReach(RefStep(path), 2 * Len(fields))

\* following whole-value references from path runs into a cycle
ReachesRefCycle(path) == \E q \in RefReach({path}, 2 * Len(fields)) : OnRefCycle(q)

(* C1: when parse_tacl_content returns, every key of the returned mapping  *)
(* is the key of a top-level field, and the value returned for it passes   *)
(* validate_value against that field's type annotation.                    *)
C1_ReturnedValuesValidated ==
    Returned =>
        /\ \A k \in 1..Len(result.keys) :
               result.keys[k].kind = "str" /\ IsFieldKey(result.keys[k].s)
        /\ \A i \in 1..Len(fields) :
               /\ MapHas(result, fields[i].key)
               /\ validate_value(MapGet(result, fields[i].key),
                                 fields[i].type_annotation, fields[i].key,
                                 custom_types).ok

\* a returned mapping in which a reference was replaced by its target
C1_Witness ==
    /\ Returned
    /\ \E i \in 1..Len(fields) :
           /\ IsWholeRef(fields[i].value)
           /\ MapGet(result, fields[i].key) # fields[i].value
           /\ fields[i].type_annotation.kind # "object"

(* C2: a field whose whole-value reference runs into a cycle of whole-     *)
(* value references is never returned; when pass two fails at such a       *)
(* field, the error is a TACLReferenceError "Circular reference detected"  *)
(* that names a path on the cycle.                                         *)
C2_CyclesRaiseCircular ==
    /\ Returned =>
           \A i \in 1..Len(fields) :
               \A path \in WholeRefsIn(fields[i].value) : ~ReachesRefCycle(path)
    /\ (/\ RaisedInPassTwo
        /\ \A path \in WholeRefsIn(fields[idx].value) : ReachesRefCycle(path)
        /\ WholeRefsIn(fields[idx].value) # {})
       => /\ error.cls = "TACLReferenceError"
          /\ error.tag = "Circular reference detected"
          /\ error.line = fields[idx].line_number
          /\ OnRefCycle(error.arg)

\* the parse failed on a cycle of three fields
C2_Witness ==
    /\ Raised
    /\ error.tag = "Circular reference detected"
    /\ Cardinality(RefReach({error.arg}, 2 * Len(fields))) = 3

\* every reference path written in a string: the whole string after "&", or
\* each match of the embedded-reference pattern
RefsInString(s) ==
    IF StartsWith(s, "&") THEN {Tail(s)}
    ELSE {SubSeq(s, i + 1, RefEnd(s, i)) : i \in {j \in 1..Len(s) : RefEnd(s, j) > 0}}

\* every reference path written in a value, at any depth
RefsIn(value) == UNION {RefsInString(s) : s \in StringLeaves(value)}

\* the paths the target of path refers to, whole or embedded
AnyRefStep(path) ==
    LET target == resolve_reference(path, RawTable)
    IN  IF target.ok THEN RefsIn(target.val) ELSE {}

RECURSIVE AnyRefReach(_, _)
AnyRefReach(paths, n) ==
    IF n = 0 THEN paths
    ELSE AnyRefReach(paths \cup UNION {AnyRefStep(q) : q \in paths}, n - 1)

\* path lies on a cycle of references, whole-value or embedded
OnAnyRefCycle(path) == path \in AnyRefReach(AnyRefStep(path), 2 * Len(fields))

\* no reference of the document, whole-value or embedded, lies on a cycle
AcyclicDocument ==
    \A i \in 1..Len(fields) :
        \A path \in AnyRefReach(RefsIn(fields[i].value), 2 * Len(fields)) :
            ~OnAnyRefCycle(path)

HasMarker(s) == \E i \in 1..Len(s) : RefEnd(s, i) > 0

(* C3: a document whose references form a cycle through references        *)
(* embedded in strings (such as a; string: "&b" / b; string: "&a") is not  *)
(* returned: the parse fails with a circular-reference error.              *)
C3_EmbeddedCyclesRaiseCircular ==
    Returned =>
        \A i \in 1..Len(fields) :
            \A path \in RefsIn(fields[i].value) : ~OnAnyRefCycle(path)

(* C4: in a document without reference cycles, a field whose value is a    *)
(* whole-value reference &k to a top-level field k declared later is       *)
(* returned with the same value as k.                                      *)
C4_ForwardReferenceSameValue ==
    (Returned /\ AcyclicDocument) =>
        \A i \in 1..Len(fields) : \A j \in (i + 1)..Len(fields) :
            fields[i].value = VStr(<<"&">> \o fields[j].key)
            => MapGet(result, fields[i].key) = MapGet(result, fields[j].key)

\* field i is written &b.x, where b is written &c and c is a mapping with key x
\* that holds no reference
PathThroughReference(i, b, c, x) ==
    /\ fields[i].value = VStr(<<"&">> \o fields[b].key \o <<".">> \o x)
    /\ fields[b].value = VStr(<<"&">> \o fields[c].key)
    /\ MapHas(fields[c].value, x)
    /\ RefsIn(fields[c].value) = {}

(* C5: a reference &b.x, where the value of b is the reference &c and c is *)
(* a mapping with key x, resolves to c.x whether b is declared before or   *)
(* after the referencing field.                                            *)
C5_PathThroughReferenceResolves ==
    \A i, b, c \in 1..Len(fields) :
        PathThroughReference(i, b, c, <<"x">>)
        => /\ (Raised /\ idx = i) => error.cls # "TACLReferenceError"
           /\ Returned =>
                  MapGet(result, fields[i].key) = MapGet(fields[c].value, <<"x">>)

(* C6: after a successful parse of a document without reference cycles no  *)
(* string leaf of the returned mapping holds a reference marker.           *)
C6_NoMarkerRemains ==
    (Returned /\ AcyclicDocument) => \A s \in StringLeaves(result) : ~HasMarker(s)

(***************************************************************************)
(* Properties of resolve_reference (specification SpecResolve).            *)
(***************************************************************************)
\* the nodes a bare key leads to from node: the value under that key
KeyTargets(node, part) ==
    {node.items[k] : k \in {j \in 1..Len(node.items) :
                               node.kind = "map" /\ node.keys[j] = VStr(part)}}

\* the nodes name[i] leads to from node: element i of the sequence under name
IndexTargets(node, part) ==
    UNION { UNION { {array.items[i + 1] :
                        i \in {n \in 0..(Len(array.items) - 1) :
                                  /\ array.kind = "list"
                                  /\ ParseInt(SubSeq(part, k + 1, Len(part) - 1)) =
                                         [ok |-> TRUE, n |-> n]}}
                    : array \in KeyTargets(node, SubSeq(part, 1, k - 1)) }
            : k \in {j \in 1..Len(part) : part[j] = "["} }

\* the nodes the path segments lead to from the nodes given
RECURSIVE Addressed(_, _)
Addressed(nodes, parts) ==
    IF parts = <<>> THEN nodes
    ELSE Addressed(UNION {IF IsArrayPart(Head(parts)) THEN IndexTargets(node, Head(parts))
                          ELSE KeyTargets(node, Head(parts)) : node \in nodes},
                   Tail(parts))

(* C7: resolve_reference yields the node the path's segments address from  *)
(* the field table (a bare key: the value under it in the current mapping; *)
(* name[i]: element i, 0 <= i < length, of the sequence under name); when   *)
(* a segment addresses nothing it fails with TACLReferenceError and yields *)
(* no value.  s[0].p yields the p of the first element of s.               *)
C7_ResolveReferenceWalks ==
    pc = "returned" =>
        /\ ures.ok => /\ Addressed({udata}, Split(upath, ".")) = {ures.val}
                      /\ ures.err = NoErr
        /\ ~ures.ok => /\ Addressed({udata}, Split(upath, ".")) = {}
                       /\ ures.err.cls = "TACLReferenceError"
                       /\ ures.val = VNull
        /\ (upath = <<"s","[","0","]",".","p">> /\ udata = ServicesTable)
               => ures = Ok(VInt(8))

\* s[0].p was resolved on the table whose s is a sequence of mappings
C7_Witness ==
    /\ pc = "returned"
    /\ upath = <<"s","[","0","]",".","p">>
    /\ udata = ServicesTable
    /\ ures.ok

(***************************************************************************)
(* Properties of validate_value (specification SpecValidate).              *)
(***************************************************************************)
IsRegistered(name) == \E k \in 1..Len(custom_types) : custom_types[k].name = name

Registered(name) == custom_types[CHOOSE k \in 1..Len(custom_types) :
                                     custom_types[k].name = name]

HasKey(value, name) == \E k \in 1..Len(value.keys) : value.keys[k] = VStr(name)

ValueAt(value, name) == value.items[CHOOSE k \in 1..Len(value.keys) :
                                        value.keys[k] = VStr(name)]

\* the declared fields that must be present and are not
MissingRequired(value, type_def) ==
    {type_def.fnames[j] : j \in {i \in 1..Len(type_def.fnames) :
                                    /\ type_def.ftypes[i].kind # "optional"
                                    /\ ~HasKey(value, type_def.fnames[i])}}

\* every declared field that is present validates against its declared term
PresentFieldsValid(value, type_def) ==
    \A j \in 1..Len(type_def.fnames) :
        HasKey(value, type_def.fnames[j]) =>
            validate_value(ValueAt(value, type_def.fnames[j]), type_def.ftypes[j],
                           UnitPath \o <<".">> \o type_def.fnames[j], custom_types).ok

\* the keys of the value that the definition does not declare
Undeclared(value, type_def) ==
    {value.keys[k] : k \in 1..Len(value.keys)}
        \ {VStr(type_def.fnames[j]) : j \in 1..Len(type_def.fnames)}

\* the value conforms to the registered definition, read as a closed record
Conforms(value, type_def) ==
    /\ MissingRequired(value, type_def) = {}
    /\ PresentFieldsValid(value, type_def)
    /\ Undeclared(value, type_def) = {}

(* C8: against Custom(name) a value that is no mapping fails; for a        *)
(* registered name a mapping passes iff every non-Optional declared field  *)
(* is present, every present declared field validates and no undeclared    *)
(* key is present, a missing required field being reported as "missing     *)
(* required field" and an extra key as "unexpected field"; for a name      *)
(* that is not registered every mapping passes.                            *)
C8_CustomClosedRecord ==
    (pc = "returned" /\ utype.kind = "custom") =>
        /\ uval.kind # "map" => ~ures.ok
        /\ (uval.kind = "map" /\ ~IsRegistered(utype.custom_name)) => ures.ok
        /\ (uval.kind = "map" /\ IsRegistered(utype.custom_name)) =>
               /\ ures.ok <=> Conforms(uval, Registered(utype.custom_name))
               /\ (/\ MissingRequired(uval, Registered(utype.custom_name)) # {}
                   /\ PresentFieldsValid(uval, Registered(utype.custom_name)))
                  => /\ ures.err.tag = "missing required field"
                     /\ ures.err.arg \in
                            MissingRequired(uval, Registered(utype.custom_name))
               /\ (/\ MissingRequired(uval, Registered(utype.custom_name)) = {}
                   /\ PresentFieldsValid(uval, Registered(utype.custom_name))
                   /\ Undeclared(uval, Registered(utype.custom_name)) # {})
                  => ures.err.tag = "unexpected field"

\* a mapping with all of P's required fields and one undeclared key was rejected
C8_Witness ==
    /\ pc = "returned"
    /\ utype = TCustom(<<"P">>)
    /\ uval.kind = "map"
    /\ MissingRequired(uval, PersonDef) = {}
    /\ Undeclared(uval, PersonDef) # {}
    /\ ures.err.tag = "unexpected field"

\* somewhere in the value a boolean stands where the term asks for an int or
\* a float, or a non-boolean where the term asks for a bool
RECURSIVE KindClash(_, _)
KindClash(value, tacl_type) ==
    CASE tacl_type.kind \in {"int", "float"} -> value.kind = "bool"
      [] tacl_type.kind = "bool" -> value.kind # "bool"
      [] tacl_type.kind = "optional" ->
            value.kind # "null" /\ KindClash(value, tacl_type.inner_type[1])
      [] tacl_type.kind = "list" ->
            /\ value.kind = "list"
            /\ \E i \in 1..Len(value.items) :
                   KindClash(value.items[i], tacl_type.inner_type[1])
      [] tacl_type.kind = "dict" ->
            /\ value.kind = "map"
            /\ \E i \in 1..Len(value.items) :
                   \/ KindClash(value.keys[i], tacl_type.key_type[1])
                   \/ KindClash(value.items[i], tacl_type.inner_type[1])
      [] tacl_type.kind = "union" ->
            \A m \in 1..Len(tacl_type.union_types) :
                KindClash(value, tacl_type.union_types[m])
      [] tacl_type.kind = "custom" ->
            /\ value.kind = "map"
            /\ IsRegistered(tacl_type.custom_name)
            /\ \E j \in 1..Len(Registered(tacl_type.custom_name).fnames) :
                   /\ HasKey(value, Registered(tacl_type.custom_name).fnames[j])
                   /\ KindClash(ValueAt(value, Registered(tacl_type.custom_name).fnames[j]),
                                Registered(tacl_type.custom_name).ftypes[j])
      [] OTHER -> FALSE

(* C9: a value in which, at any depth, a boolean stands where the type     *)
(* term asks for an int or a float does not pass validation, and neither   *)
(* does one in which a non-boolean stands where the term asks for a bool.  *)
C9_BoolIsNoNumber ==
    pc = "returned" =>
        /\ KindClash(uval, utype) => ~ures.ok
        /\ (utype.kind \in {"int", "float"} /\ uval.kind = "bool") => ~ures.ok
        /\ (utype.kind = "bool" /\ ures.ok) => uval.kind = "bool"

\* a boolean two levels down, in the x; int field of the P inside a W
C9_Witness ==
    /\ pc = "returned"
    /\ utype = TCustom(<<"W">>)
    /\ HasKey(uval, <<"p">>)
    /\ HasKey(ValueAt(uval, <<"p">>), <<"x">>)
    /\ ValueAt(ValueAt(uval, <<"p">>), <<"x">>).kind = "bool"
    /\ ~ures.ok

\* the kind of value a primitive type term names
KindOf(tacl_type) ==
    CASE tacl_type.kind = "string" -> "str"
      [] tacl_type.kind = "int" -> "int"
      [] tacl_type.kind = "bool" -> "bool"
      [] tacl_type.kind = "float" -> "float"
      [] tacl_type.kind = "null" -> "null"

(* C10 as stated: against a primitive term String, Int, Bool, Float or     *)
(* Null a value passes iff its kind is exactly the term's kind; an integer *)
(* does not pass against Float.                                            *)
C10_ExactKindCheck ==
    (pc = "returned" /\ utype \in PrimitiveTypes) =>
        /\ ures.ok <=> uval.kind = KindOf(utype)
        /\ (utype = TFloat /\ uval.kind = "int") => ~ures.ok

(* C10 amended: against String, Int, Bool or Null a value passes iff its   *)
(* kind is exactly the term's kind; against Float a value passes iff it is *)
(* a float or an integer (never a boolean).                                *)
C10_ExactKindExceptFloat ==
    (pc = "returned" /\ utype \in PrimitiveTypes) =>
        /\ utype # TFloat => (ures.ok <=> uval.kind = KindOf(utype))
        /\ utype = TFloat => (ures.ok <=> uval.kind \in {"float", "int"})

\* an integer was accepted against Float
C10_Witness ==
    /\ pc = "returned"
    /\ utype = TFloat
    /\ uval.kind = "int"
    /\ ures.ok

\* the token stands for the value: a quoted token for the string equal to its
\* unquoted text, a token with "." for the float equal to it, any other
\* numeric token for the integer equal to it
TokenStandsFor(value, token) ==
    IF StartsWith(token, "\"") /\ EndsWith(token, "\"")
    THEN value.kind = "str" /\ value.s = SubSeq(token, 2, Len(token) - 1)
    ELSE IF HasChar(token, ".")
    THEN value.kind = "float" /\ ParseFloat(token) = [ok |-> TRUE, n |-> value.n]
    ELSE value.kind = "int" /\ ParseInt(token) = [ok |-> TRUE, n |-> value.n]

(* C11: against Literal(values) a value passes iff one of the declared     *)
(* tokens stands for it (numeric tokens by exact kind, a boolean never     *)
(* matching); otherwise validation fails with "not in allowed values".     *)
C11_LiteralExactKind ==
    (pc = "returned" /\ utype.kind = "literal") =>
        /\ ures.ok <=> \E i \in 1..Len(utype.literal_values) :
                           TokenStandsFor(uval, utype.literal_values[i])
        /\ uval.kind = "bool" => ~ures.ok
        /\ ~ures.ok => /\ ures.err.cls = "ValidationError"
                       /\ ures.err.tag = "not in allowed values"

\* the value validates against member m of the union
MemberAccepts(m) ==
    validate_value(uval, utype.union_types[m], UnitPath, custom_types).ok

\* the failure is the union's: no member matched, the names listed are names
UnionFailure(names) ==
    /\ ures.err.cls = "ValidationError"
    /\ ures.err.tag = "does not match any union type"
    /\ ures.err.path = UnitPath
    /\ ures.err.names = names

(* C12 as stated: against Union(members) a value passes iff it validates   *)
(* against at least one member; when none validates the error "does not    *)
(* match any union type" lists the kind name of every member.              *)
C12_UnionListsKindNames ==
    (pc = "returned" /\ utype.kind = "union") =>
        /\ ures.ok <=> \E m \in 1..Len(utype.union_types) : MemberAccepts(m)
        /\ ~ures.ok => UnionFailure([m \in 1..Len(utype.union_types) |->
                                        KindValue(utype.union_types[m].kind)])

(* C12 amended: against Union(members) a value passes iff it validates     *)
(* against at least one member; when none validates the error "does not    *)
(* match any union type" lists, in declaration order, the kind name of     *)
(* every member that is not a Custom term and the type name of every       *)
(* Custom member.  An integer passes union[string,int], a float fails it.  *)
C12_UnionListsMemberNames ==
    (pc = "returned" /\ utype.kind = "union") =>
        /\ ures.ok <=> \E m \in 1..Len(utype.union_types) : MemberAccepts(m)
        /\ ~ures.ok => UnionFailure([m \in 1..Len(utype.union_types) |->
                                        IF utype.union_types[m].kind = "custom"
                                        THEN utype.union_types[m].custom_name
                                        ELSE KindValue(utype.union_types[m].kind)])
        /\ (utype = TUnion(<<TString, TInt>>) /\ uval.kind = "int") => ures.ok
        /\ (utype = TUnion(<<TString, TInt>>) /\ uval.kind = "float") => ~ures.ok

\* a value was accepted by the second member of a union after the first
\* member had rejected it
C12_Witness ==
    /\ pc = "returned"
    /\ utype.kind = "union"
    /\ ~MemberAccepts(1)
    /\ MemberAccepts(2)
    /\ ures.ok

(***************************************************************************)
(* Properties of the two passes of parse_tacl_content (specification       *)
(* Spec): the order in which problems are detected and how they surface.   *)
(***************************************************************************)
\* item i of the document holds an annotation that parse_type rejects
SyntaxErrorAt(i) ==
    IF doc[i].kind = "typedef"
    THEN ~ParseTypeFields(doc[i].type_def.ftypes, 1, <<>>).ok
    ELSE ~parse_type(doc[i].type_str).ok

HasSyntaxError == \E i \in 1..Len(doc) : SyntaxErrorAt(i)

\* field k is stored as it was written
Untouched(k) == MapGet(parsed_data, fields[k].key) = fields[k].value

\* field k is stored with a value that passed validation
Settled(k) ==
    validate_value(MapGet(parsed_data, fields[k].key), fields[k].type_annotation,
                   fields[k].key, custom_types).ok

\* the state a failed parse is left in
AbortedAtFirstProblem ==
    /\ HasSyntaxError => ~Returned /\ pc # "pass2" /\ ~RaisedInPassTwo
    /\ Raised => result = NoResult /\ (RaisedInPassOne \/ RaisedInPassTwo)
    /\ RaisedInPassOne =>
           /\ SyntaxErrorAt(idx)
           /\ \A i \in 1..(idx - 1) : ~SyntaxErrorAt(i)
           /\ parsed_data = EmptyMap
    /\ RaisedInPassTwo =>
           /\ \A k \in 1..(idx - 1) : Settled(k)
           /\ \A k \in idx..Len(fields) : Untouched(k)
           /\ error.cls = "TACLReferenceError" <=> ~Resolved(fields[idx], parsed_data).ok
           /\ error.cls = "ValidationError" =>
                  ~Validated(fields[idx], Resolved(fields[idx], parsed_data).val,
                             custom_types).ok

\* one step of the parse: nothing follows a failure or a return, pass two
\* takes the fields one by one in document order, and a step of pass two
\* stores at most the field it is at
InExecutionOrder ==
    /\ ~Raised /\ ~Returned
    /\ (pc = "pass1" /\ pc' = "failed") => error'.cls = "ParseError"
    /\ (pc = "pass2" /\ pc' = "pass2") =>
           /\ idx' = idx + 1
           /\ \A k \in 1..Len(fields) : k # idx =>
                  MapGet(parsed_data', fields[k].key) = MapGet(parsed_data, fields[k].key)
    /\ (pc = "pass2" /\ pc' # "pass2") => parsed_data' = parsed_data
    /\ pc' = "done" => idx > Len(fields) /\ result' = parsed_data

(* C13: the parse aborts at the first problem in execution order: a        *)
(* document with a syntax error fails in pass one with a ParseError at its *)
(* first faulty item, before any field is resolved or validated; pass two  *)
(* takes the fields in document order, resolving before validating, and a  *)
(* failure leaves every later field untouched and returns no mapping.      *)
C13_AbortsAtFirstProblem == [](AbortedAtFirstProblem) /\ [][InExecutionOrder]_vars

\* a syntax error on a later line wins over a reference that cannot be
\* resolved on an earlier line
C13_Witness ==
    /\ RaisedInPassOne
    /\ \E k \in 1..Len(fields) : ~Resolved(fields[k], RawTable).ok

\* the line the header of the top-level field named key stands on
HeaderLine(key) ==
    doc[CHOOSE i \in 1..Len(doc) : doc[i].kind = "field" /\ doc[i].key = key].line

\* err under the prefix "Line N: ": same kind, same message
Prefixed(err, N) == [err EXCEPT !.line = N]

(* C14: when pass two fails at a field, an error of resolving its          *)
(* references surfaces as TACLReferenceError and an error of validating    *)
(* its resolved value as ValidationError; the raised error is the          *)
(* original one, kind and message unchanged, under the prefix "Line N: "   *)
(* with N the 1-based line of that field's header.                         *)
C14_PassTwoErrorsWrapped ==
    RaisedInPassTwo =>
        LET field == fields[idx]
            N == HeaderLine(field.key)
            Surfaces(r) ==
                IF ~r.ok
                THEN /\ r.err.cls = "TACLReferenceError"
                     /\ error = Prefixed(r.err, N)
                ELSE LET v == validate_value(r.val, field.type_annotation, field.key,
                                             custom_types)
                     IN  /\ ~v.ok
                         /\ v.err.cls = "ValidationError"
                         /\ error = Prefixed(v.err, N)
        IN  /\ N >= 1
            /\ Surfaces(resolve_references_in_value(field.value, parsed_data, {}))

\* a validation error at a field whose header follows the block of the
\* field before it
C14_Witness ==
    /\ RaisedInPassTwo
    /\ error.cls = "ValidationError"
    /\ idx > 1
    /\ error.line > HeaderLine(fields[idx - 1].key) + 1

(* C15: every error parse_tacl_content raises, a ParseError of pass one    *)
(* (a rejected annotation of a field line or of an @type block) as well as *)
(* a TACLReferenceError or ValidationError of pass two, names a source     *)
(* line number in its message.                                             *)
C15_ErrorsNameLine ==
    Raised =>
        /\ error.cls \in {"ParseError", "ValidationError", "TACLReferenceError"}
        /\ error.line >= 1

(***************************************************************************)
(* Properties of pass one on the lines of a document (specification        *)
(* SpecLines).                                                             *)
(***************************************************************************)
\* the first line from line i on that is neither blank nor a comment, or 0
RECURSIVE ContentFrom(_)
ContentFrom(i) ==
    IF i > Len(doc) THEN 0
    ELSE IF ~IsSkipped(doc[i]) THEN i
    ELSE ContentFrom(i + 1)

\* the header on line 1 has no value and an indented line or a list item
\* is the first content after it
HeaderHasBlock ==
    /\ TypePatternMatch(doc[1].text).value_str = <<>>
    /\ ContentFrom(2) # 0
    /\ StartsIndented(doc[ContentFrom(2)]) \/ StartsWith(doc[ContentFrom(2)].text, "-")

\* the first line after line c, neither blank nor a comment, that is
\* indented less than line c; the line after the last one if there is none
RECURSIVE OutdentAfter(_, _)
OutdentAfter(c, i) ==
    IF i > Len(doc) THEN i
    ELSE IF ~IsSkipped(doc[i]) /\ doc[i].indent < doc[c].indent THEN i
    ELSE OutdentAfter(c, i + 1)

(* C16: the block under a field header ends exactly at the first line,     *)
(* neither blank nor a comment, that is indented less than the block's     *)
(* first content line: reading the header and its block leaves pass one at *)
(* that line, which is parsed next.                                        *)
C16_BlockEndsAtFirstOutdent ==
    [][(pc = "pass1" /\ idx = 1 /\ Len(fields') = 1 /\ HeaderHasBlock)
           => idx' = OutdentAfter(ContentFrom(2), ContentFrom(2) + 1)]_vars

(* C17: when the header on line 1 has no value, the first line after it    *)
(* that is neither blank nor a comment decides the kind of block: the      *)
(* field's value is the list read from that line on when the line starts   *)
(* with "-", and the object block read from there otherwise.               *)
C17_NextContentDecidesKind ==
    (/\ Len(fields) >= 1
     /\ fields[1].line_number = 1
     /\ TypePatternMatch(doc[1].text).value_str = <<>>
     /\ ContentFrom(2) # 0)
    => fields[1].value =
           IF StartsWith(doc[ContentFrom(2)].text, "-")
           THEN parse_yaml_list(doc, ContentFrom(2)).val
           ELSE parse_object_block(doc, ContentFrom(2)).val

(* C18: a top-level field whose value starts with "&" is read as the raw   *)
(* reference text, also when the text ends in a block-scalar marker: once  *)
(* pass one is past line 1, the field of line 1 holds its value text.      *)
C18_ReferenceKeptRaw ==
    LET value_str == TypePatternMatch(doc[1].text).value_str
    IN  (StartsWith(value_str, "&") /\ (idx > 1 \/ pc # "pass1"))
        => /\ Len(fields) >= 1
           /\ fields[1].line_number = 1
           /\ fields[1].value = VStr(value_str)

(***************************************************************************)
(* Properties of parse_type (specification SpecParseType).                 *)
(***************************************************************************)
\* a bracketed form whose first "[" is closed by the last character
BalancedAtEnd(s) ==
    /\ HasChar(s, "[")
    /\ DepthAt(s, Len(s)) = 0
    /\ \A i \in FirstIndex(s, "[")..(Len(s) - 1) : DepthAt(s, i) >= 1

Unbalanced(s) == (HasChar(s, "[") \/ HasChar(s, "]")) /\ ~BalancedAtEnd(s)

(* C19: parse_type accepts every annotation the grammar generates and      *)
(* returns the term it was written from, composite members of a union and  *)
(* composite keys and values of a dict included; a bracketed form that is  *)
(* not closed exactly at its end is a ParseError.                          *)
C19_ParseTypeReadsGrammar ==
    pc = "returned" =>
        /\ ustr = Annotation(utype) => uparsed = TypeOk(utype)
        /\ Unbalanced(ustr) => ~uparsed.ok /\ uparsed.err.cls = "ParseError"

\* a term with every part its kind needs, at every depth
RECURSIVE WellFormed(_)
WellFormed(t) ==
    CASE t.kind \in {"list", "optional"} ->
            /\ Len(t.inner_type) = 1
            /\ WellFormed(t.inner_type[1])
      [] t.kind = "dict" ->
            /\ Len(t.key_type) = 1 /\ Len(t.inner_type) = 1
            /\ WellFormed(t.key_type[1]) /\ WellFormed(t.inner_type[1])
      [] t.kind = "union" ->
            /\ Len(t.union_types) >= 1
            /\ \A m \in 1..Len(t.union_types) : WellFormed(t.union_types[m])
      [] t.kind = "literal" -> Len(t.literal_values) >= 1
      [] t.kind = "custom" ->
            /\ Len(t.custom_name) >= 1
            /\ IsIdStart(t.custom_name[1])
            /\ \A j \in 1..Len(t.custom_name) : IsIdChar(t.custom_name[j])
      [] OTHER -> t.kind \in {"string", "int", "float", "bool", "null", "object"}

\* the annotations of OtherAnnotations that are types all the same: blanks
\* around a type, the dict forms, and identifiers
WellWritten ==
    { <<" ","i","n","t"," ">>,
      <<"l","i","s","t","["," ","i","n","t"," ","]">>,
      <<"d","i","c","t","[","i","n","t","]">>,
      <<"d","i","c","t","[","s","t","r","i","n","g",","," ","i","n","t","]">>,
      <<"l","i","s","t">>, <<"_","x","1">> }

(* C20: parse_type either raises ParseError or returns a term that is      *)
(* well formed at every depth; dict[T] has the key type string; an empty   *)
(* annotation, empty brackets, an empty side of the comma of a dict, an    *)
(* empty union member, a literal without values and a custom name that is  *)
(* no identifier are ParseErrors.                                          *)
C20_ParseErrorOrWellFormed ==
    pc = "returned" =>
        /\ uparsed.ok => WellFormed(uparsed.type)
        /\ ~uparsed.ok => uparsed.err.cls = "ParseError"
        /\ ustr = <<"d","i","c","t","[","i","n","t","]">>
               => uparsed = TypeOk(TDict(TString, TInt))
        /\ ustr \in OtherAnnotations \ WellWritten => ~uparsed.ok

\* the annotation literal[,] was rejected
C20_Witness ==
    /\ pc = "returned"
    /\ ustr = <<"l","i","t","e","r","a","l","[",",","]">>
    /\ ~uparsed.ok

(***************************************************************************)
(* Properties of consecutive calls (specification SpecCalls).              *)
(***************************************************************************)
\* pass one of a parser that has parsed nothing before, run to its end
RECURSIVE FreshPassOne(_, _, _, _)
FreshPassOne(d, i, types, fs) ==
    IF i > Len(d) THEN [ok |-> TRUE, types |-> types, fields |-> fs, err |-> NoErr]
    ELSE LET Stop(err) == [ok |-> FALSE, types |-> types, fields |-> fs, err |-> err]
             Go(r) ==
                 IF ~r.ok THEN Stop(r.err)
                 ELSE IF d[i].kind = "typedef"
                 THEN FreshPassOne(d, i + 1,
                          Append(types, [d[i].type_def EXCEPT !.ftypes = r.types]), fs)
                 ELSE FreshPassOne(d, i + 1, types,
                          Append(fs, TACLField(d[i].key, r.type,
                                     IF Strip(d[i].value_str) = <<>> THEN d[i].block
                                     ELSE InlineValue(d[i].value_str),
                                     d[i].line)))
         IN  Go(IF d[i].kind = "typedef"
                THEN ParseTypeFields(d[i].type_def.ftypes, 1, <<>>)
                ELSE parse_type(d[i].type_str))

\* pass two over the fields fs with the table data, run to its end
RECURSIVE FreshPassTwo(_, _, _, _)
FreshPassTwo(fs, k, data, types) ==
    IF k > Len(fs) THEN [ok |-> TRUE, val |-> data, err |-> NoErr]
    ELSE LET Check(r, v) ==
                 IF ~v.ok
                 THEN [ok |-> FALSE, val |-> NoResult,
                       err |-> Wrapped("ValidationError", fs[k], v.err)]
                 ELSE FreshPassTwo(fs, k + 1, MapSet(data, fs[k].key, r.val), types)
             Go(r) ==
                 IF ~r.ok
                 THEN [ok |-> FALSE, val |-> NoResult,
                       err |-> Wrapped("TACLReferenceError", fs[k], r.err)]
                 ELSE Check(r, Validated(fs[k], r.val, types))
         IN  Go(Resolved(fs[k], data))

\* what a first call of parse_tacl_content returns or raises for document d
FreshOutcome(d) ==
    LET Two(one) ==
            IF ~one.ok THEN [ok |-> FALSE, val |-> NoResult, err |-> one.err]
            ELSE FreshPassTwo(one.fields, 1, TableOf(one.fields, EmptyMap), one.types)
    IN  Two(FreshPassOne(d, 1, <<>>, <<>>))

\* the document uses the type P and declares no type
UsesUndeclaredP ==
    /\ \A i \in 1..Len(doc) : doc[i].kind = "field"
    /\ \E i \in 1..Len(doc) : doc[i].type_str = Annotation(TCustom(<<"P">>))

(* C21: whatever documents were parsed before, a call of                   *)
(* parse_tacl_content returns or raises what a first call returns or       *)
(* raises for the same document, and starts with an empty registry of      *)
(* custom types and an empty field list; a type P registered by an earlier *)
(* document is unknown to a later document that does not declare it.       *)
C21_CallsShareNoState ==
    /\ (pc = "pass1" /\ idx = 1) => custom_types = <<>> /\ fields = <<>>
    /\ Returned => FreshOutcome(doc).ok /\ result = FreshOutcome(doc).val
    /\ Raised => ~FreshOutcome(doc).ok /\ error = FreshOutcome(doc).err
    /\ UsesUndeclaredP => custom_types = <<>>

\* a document that types the block z: 1 as P without declaring P is parsed
\* and returned: P, which has no field z, is unknown to this call
C21_Witness ==
    /\ UsesUndeclaredP
    /\ \E i \in 1..Len(doc) :
           doc[i].type_str = Annotation(TCustom(<<"P">>)) /\ doc[i].block = BlockZ1
    /\ Returned

(***************************************************************************)
(* Properties of documents of inline fields (specification SpecInline).    *)
(***************************************************************************)
\* the key and the literal written on each of the three lines of the test
Written(line) ==
    CASE line = NameLine -> [key |-> <<"n","a","m","e">>, val |-> VStr(<<"t","e","s","t">>)]
      [] line = PortLine -> [key |-> <<"p","o","r","t">>, val |-> VInt(8080)]
      [] line = DebugLine -> [key |-> <<"d","e","b","u","g">>, val |-> VBool(TRUE)]

\* the lines of the document that are neither blank nor comments, in order
FieldLinesOf(d) == SelectSeq(d, LAMBDA line : ~(line.text = <<>> \/ line.text[1] = "#"))

\* every line is blank, a comment, or one of the three fields, none twice
PlainFields ==
    /\ \A i \in 1..Len(doc) :
           doc[i].text = <<>> \/ doc[i].text[1] = "#" \/ doc[i] \in {NameLine, PortLine, DebugLine}
    /\ \A i, j \in 1..Len(doc) :
           (i # j /\ doc[i] = doc[j]) => (doc[i].text = <<>> \/ doc[i].text[1] = "#")

(* C22: a document of top-level typed fields with distinct keys and inline *)
(* literals that match their types, among comment lines and blank lines,   *)
(* never raises, and returns the mapping of exactly the keys of the field  *)
(* lines, in document order, each with the literal written on its line.    *)
C22_InlineFieldsInOrder ==
    PlainFields =>
        /\ ~Raised
        /\ Returned =>
               /\ result.kind = "map"
               /\ result.keys = [k \in 1..Len(FieldLinesOf(doc)) |->
                                     VStr(Written(FieldLinesOf(doc)[k]).key)]
               /\ result.items = [k \in 1..Len(FieldLinesOf(doc)) |->
                                      Written(FieldLinesOf(doc)[k]).val]

\* the document of tests/test_simple.py was parsed and returned
C22_Witness ==
    /\ doc = <<Line(0, <<>>), CommentLine, NameLine, PortLine, DebugLine>>
    /\ Returned

(***************************************************************************)
(* Properties of the callers in api.py (specification SpecApi).            *)
(***************************************************************************)
\* loads has returned or raised
LoadsEnded == pc \in {"loads_returned", "loads_raised", "validate_returned", "validate_raised"}

(* C23: loads returns the mapping parse_tacl_content returned, or raises:  *)
(* a ParseError, ValidationError or TACLReferenceError of the core as it   *)
(* is, any other exception as a TACLLoadError; the core itself raises no   *)
(* TACLLoadError; validate_string returns True exactly when loads returned *)
(* and otherwise raises the error loads raised.                            *)
C23_LoadsKeepsCoreErrors ==
    /\ error.cls # "TACLLoadError"
    /\ LoadsEnded =>
           /\ ures.ok <=> error = NoErr
           /\ ures.ok => ures.val = result /\ result.kind = "map"
           /\ (~ures.ok /\ error.cls \in CoreErrors) => ures.err = error
           /\ (~ures.ok /\ error.cls \notin CoreErrors) =>
                  /\ ures.err.cls = "TACLLoadError"
                  /\ ures.err.tag = error.tag
    /\ pc = "validate_returned" => ures.ok /\ uval = VBool(TRUE)
    /\ pc = "validate_raised" => ~ures.ok /\ uval = VNull
    /\ pc = "loads_returned" => ures.ok
    /\ pc = "loads_raised" => ~ures.ok

\* the RecursionError of a deeply nested annotation left the core and
\* validate_string raised it as a TACLLoadError
C23_Witness ==
    /\ pc = "validate_raised"
    /\ error.cls = "RecursionError"
    /\ ures.err.cls = "TACLLoadError"

(***************************************************************************)
(* Properties of the compilers of cli.py (specification SpecCli).          *)
(***************************************************************************)
(* C24: when the core rejects the content with a ParseError, a             *)
(* ValidationError or a TACLReferenceError, compile_to_yaml,               *)
(* compile_to_json and compile_to_toml each raise an error of that kind.   *)
C24_CompilersKeepErrorKinds ==
    (pc \in {"yaml_raised", "json_raised", "toml_raised"} /\ error.cls \in CoreErrors) =>
        ures.err.cls = error.cls

(***************************************************************************)
(* Properties of repeated validation (specification SpecRevalidate).       *)
(***************************************************************************)
\* the second call has ended as the first did
SameOutcome ==
    pc = "revalidated" =>
        /\ ures.ok <=> error = NoErr
        /\ ~ures.ok => ures.err = error

\* a call leaves the value, the type term and the registry as they were
ArgumentsKept ==
    /\ uval' = uval
    /\ utype' = utype
    /\ custom_types' = custom_types

FieldAt(key) ==
    IF \E k \in 1..Len(fields) : fields[k].key = key
    THEN CHOOSE k \in 1..Len(fields) : fields[k].key = key
    ELSE 0

\* the text an embedded reference to a target with value v is replaced by
Shown(v) == IF v.kind = "str" THEN v.s ELSE Str(v)

\* in pass two the fields not yet processed are in the table as written
RawAhead ==
    pc = "pass2" => \A k \in idx..Len(fields) : Untouched(k)

\* the field t, written "&b", holds the text of b as b stood in the table
\* when t was processed: resolved if b is written before t, raw if after
EmbeddedSeesTable ==
    (Returned /\ FieldAt(<<"t">>) > 0 /\ FieldAt(<<"b">>) > 0) =>
        MapGet(result, <<"t">>) =
            VStr(<<"\"">> \o Shown(IF FieldAt(<<"b">>) < FieldAt(<<"t">>)
                                   THEN MapGet(result, <<"b">>)
                                   ELSE fields[FieldAt(<<"b">>)].value)
                 \o <<"\"">>)

\* a step of pass two stores the resolved value of the field it is at
StoresResolved ==
    (pc = "pass2" /\ pc' = "pass2") =>
        MapGet(parsed_data', fields[idx].key) = Resolved(fields[idx], parsed_data).val

(* C26: in pass two the table holds the resolved value of every field      *)
(* already processed and the raw value of every later field, so the        *)
(* embedded reference "&b" is replaced by b's resolved value when b is     *)
(* written before it and by b's raw value when b is written after it.      *)
C26_OrderDecidesEmbedded == [](RawAhead /\ EmbeddedSeesTable) /\ [][StoresResolved]_vars

\* t; string: "&b"
EmbeddedB ==
    [key |-> <<"t">>, type_str |-> Annotation(TString),
     value_str |-> <<"\"","&","b","\"">>, block |-> VNull]

\* b; object:  with the block  x: 1 / y: &b.x
BlockB ==
    [key |-> <<"b">>, type_str |-> Annotation(TObject), value_str |-> <<>>, block |-> BlockXY]

\* two documents that differ only in the order of t and b both parse, and
\* give t different values: this one, t first, returned t with b's raw
\* text; the other one returns t with b's resolved text
C26_Witness ==
    /\ doc = KeyedDocument(BlockText(PersonDef), <<EmbeddedB, BlockB>>)
    /\ Returned
    /\ LET Differs(other) ==
               /\ other.ok
               /\ MapGet(other.val, <<"b">>) = MapGet(result, <<"b">>)
               /\ MapGet(other.val, <<"t">>) # MapGet(result, <<"t">>)
       IN  Differs(FreshOutcome(KeyedDocument(BlockText(PersonDef), <<BlockB, EmbeddedB>>)))

(***************************************************************************)
(* C27.  parse_tacl_content ends on every document.  Each scanner goes     *)
(* forward: a turn of the loop of parse_object_block or parse_yaml_list    *)
(* that goes on does so at a later line, and the object-block, list-block, *)
(* block-scalar, multi-line-array and @type scanners return a line not     *)
(* before the one they started at.  Each step of pass one moves the line   *)
(* index forward, each step of pass two moves to the next field, and the   *)
(* number of steps left decreases with every step; so the call reaches its *)
(* return or an exception.                                                 *)
(***************************************************************************)
BaseIndents == {NoIndent, 0, 2, 4}

\* a turn that goes on does so after the line it read
TurnAdvances(turn, current_line) ==
    turn.kind \in {"next", "nested"} => turn.line > current_line

\* a block scanner that returns does so at or after its start
BlockAdvances(block, start_line) == block.ok => block.line >= start_line

ScannersAdvance ==
    \A i \in 1..Len(doc) :
        /\ \A base \in BaseIndents :
               /\ TurnAdvances(ObjectTurn(doc, i, base, EmptyMap), i)
               /\ TurnAdvances(ListTurn(doc, i, base, <<>>), i)
        /\ BlockAdvances(parse_object_block(doc, i), i)
        /\ BlockAdvances(parse_yaml_list(doc, i), i)
        /\ BlockAdvances(parse_multiline_array(doc, i), i + 1)
        /\ BlockAdvances(TypeBlock(doc, i), i + 1)
        /\ parse_multiline_block(doc, i).end >= i

\* an upper bound of the steps the call has left
StepsLeft ==
    CASE pc = "pass1" -> (Len(doc) + 1 - idx) + Len(doc) + 3
      [] pc = "pass2" -> (Len(fields) + 1 - idx) + 1
      [] OTHER -> 0

StepsTowardsEnd ==
    /\ pc' = pc /\ Running => idx' > idx
    /\ StepsLeft' < StepsLeft
    /\ StepsLeft' >= 0

\* the document is not changed by the call: ScannersAdvance is stated of it
\* as the call begins
C27_ParseTerminates ==
    /\ ScannersAdvance
    /\ [][StepsTowardsEnd]_vars
    /\ <>(Returned \/ Raised)

\* the document   @type P: / a; object: / x:   has been read to its end: the
\* @type scanner stopped at the field header, the object block took the
\* last line, and pass two returned
C27_Witness ==
    /\ Returned
    /\ Len(doc) = 3
    /\ TypeDefinitionMatch(doc[1].text).ok
    /\ Len(custom_types) = 1
    /\ Len(fields) = 1
    /\ fields[1].line_number = 2
    /\ fields[1].value.kind = "map"
    /\ Len(fields[1].value.keys) = 1

\* the whole-value references the target of path holds in the table data
WholeStep(path, data) ==
    LET Held(target) == IF target.ok THEN WholeRefsIn(target.val) ELSE {}
    IN  Held(resolve_reference(path, data))

\* the paths whose resolution is begun while that of one of paths is going on
RECURSIVE InProgress(_, _, _)
InProgress(paths, data, n) ==
    IF n = 0 THEN paths
    ELSE InProgress(paths \cup UNION {WholeStep(q, data) : q \in paths}, data, n - 1)

\* path is written, as a whole value or embedded, in a value reached while
\* the resolution of path itself is going on
ReachedAgain(path, data) ==
    \E q \in InProgress({path}, data, 2 * Len(fields)) :
        LET Again(target) == target.ok /\ path \in RefsIn(target.val)
        IN  Again(resolve_reference(q, data))

\* the field pass two is at
AtField == pc = "pass2" /\ idx <= Len(fields)

\* a call that returns leaves visited_refs as it found it
VisitedRestored(value, data, vis) ==
    LET Same(r) == r.ok => r.vis = vis
    IN  Same(resolve_references_in_value(value, data, vis))

\* a call that raises the circular-reference error names a path reached again
CircularInProgress(value, data) ==
    LET Named(r) ==
            ~r.ok /\ r.err.tag = "Circular reference detected"
                => ReachedAgain(r.err.arg, data)
    IN  Named(resolve_references_in_value(value, data, {}))

(***************************************************************************)
(* C28.  resolve_references_in_value leaves the set of visited paths as it *)
(* found it whenever it returns, whatever the set held at the call; and    *)
(* it raises "Circular reference detected" only for a path that is written *)
(* again in a value reached while that path is being resolved.  So a field *)
(* that names one target several times (l: &a with m: [&a, &b]) resolves.  *)
(***************************************************************************)
C28_VisitedRestored ==
    AtField =>
        /\ VisitedRestored(fields[idx].value, parsed_data, {})
        /\ VisitedRestored(fields[idx].value, parsed_data, {<<"z">>})
        /\ CircularInProgress(fields[idx].value, parsed_data)

\* a: {x: 1}, b: "v" and t with the block l: &a / m: [&a, &b] were returned
\* with t's three references replaced by their targets
C28_Witness ==
    /\ Returned
    /\ \E i \in 1..Len(fields) :
           /\ fields[i].value = BlockTeam
           /\ MapGet(result, fields[i].key) =
                  VMap(<<VStr(<<"l">>), VStr(<<"m">>)>>,
                       <<BlockX1, VList(<<BlockX1, VStr(<<"v">>)>>)>>)

\* line is written   name; type: value   with a value on the line
IsAnnotated(line) ==
    LET Whole(match) == match.ok /\ match.value_str # <<>>
    IN  Whole(TypePatternMatch(line.text))

\* the value written on an annotated line passes its own annotation
AnnotationHolds(line) ==
    LET Checked(match, type_annotation) ==
            /\ type_annotation.ok
            /\ validate_value(InlineValue(match.value_str), type_annotation.type,
                              match.key, custom_types).ok
        Holds(match) == Checked(match, parse_type(match.type_str))
    IN  Holds(TypePatternMatch(line.text))

(***************************************************************************)
(* C29.  A document is returned only if the value of every annotated line, *)
(* at the top level or inside an object block, passes the annotation       *)
(* written on that line.                                                   *)
(***************************************************************************)
C29_NestedAnnotationsChecked ==
    Returned => \A j \in 1..Len(doc) : IsAnnotated(doc[j]) => AnnotationHolds(doc[j])

\* line 1 is a field header without a value, line 2 an indented entry
\* header   key:   without a value, and line 3, neither blank nor a comment,
\* is indented no more than line 2
EntryHeaderThenNoDeeper ==
    /\ Len(doc) >= 3
    /\ TypePatternMatch(doc[1].text).ok
    /\ TypePatternMatch(doc[1].text).value_str = <<>>
    /\ StartsIndented(doc[2])
    /\ ~HasChar(doc[2].text, ";")
    /\ HasChar(doc[2].text, ":")
    /\ After(doc[2].text, ":") = <<>>
    /\ ~IsSkipped(doc[3])
    /\ doc[3].indent <= doc[2].indent

\* the key written before the colon of an entry line
EntryKey(line) == VStr(Strip(Before(line.text, ":")))

\* the value has the key and, under it, the empty mapping
HoldsEmpty(value, key) ==
    /\ value.kind = "map"
    /\ \E k \in 1..Len(value.keys) : value.keys[k] = key /\ value.items[k] = EmptyMap

\* the value has the key
HoldsKey(value, key) ==
    value.kind = "map" /\ \E k \in 1..Len(value.keys) : value.keys[k] = key

(***************************************************************************)
(* C30.  Under a field header, an entry header without a value whose next  *)
(* line is indented no more than itself gets the empty value; when that    *)
(* next line stands at the same indentation and is an entry   key: value,  *)
(* it is an entry of the same block as the header.                         *)
(***************************************************************************)
C30_NestingFollowsIndentation ==
    (/\ Len(fields) >= 1
     /\ fields[1].line_number = 1
     /\ EntryHeaderThenNoDeeper)
    => /\ HoldsEmpty(fields[1].value, EntryKey(doc[2]))
       /\ (doc[3].indent = doc[2].indent /\ HasChar(doc[3].text, ":"))
              => HoldsKey(fields[1].value, EntryKey(doc[3]))
====
